---- MODULE Spec2Model ----
(***************************************************************************)
(* Knowledge store of goproduct: the record lifecycle of the three         *)
(* backends (FileStore, MemoryStore, PgStore) and the filter evaluator of  *)
(* the two in-process backends.                                            *)
(*                                                                         *)
(* Go strings and byte slices are sequences of byte values; time.Time is a *)
(* natural number of clock ticks, 0 being the zero time (IsZero).          *)
(* Entry fields the modelled code never reads or writes individually       *)
(* (ContentType, SourceID, SourceType, OwnerID, OwnerType, SubjectType,    *)
(* References) are left out of the Entry record.                           *)
(***************************************************************************)
EXTENDS Integers, Sequences, FiniteSets, TLC

(* ----------------------------- bounds ---------------------------------- *)
\* the clock runs from 1 to MaxTime
MaxTime == 2
\* longest batch handed to LoadRecords
MaxBatch == 2
\* most conditions in one filter group
MaxConds == 2

(* ----------------------------- strings --------------------------------- *)
EmptyStr == <<>>
\* "a", "b": record IDs (for PgStore they stand for well-formed UUIDs)
ID_A == <<97>>
ID_B == <<98>>
\* "x": a non-empty string that uuid.Parse rejects
ID_X == <<120>>
IDs == {ID_A, ID_B}
\* "fact", "message"
CategoryFact == <<102, 97, 99, 116>>
CategoryMessage == <<109, 101, 115, 115, 97, 103, 101>>
\* "T1", "T2": record payloads
Content1 == <<84, 49>>
Content2 == <<84, 50>>

(* ----------------------------- Entry ----------------------------------- *)
Entry(id, content, created, updated) ==
    [ID |-> id, Category |-> CategoryFact, Content |-> content,
     Importance |-> 0, CreatedAt |-> created, UpdatedAt |-> updated,
     ExpiresAt |-> 0, SubjectIDs |-> <<>>, Tags |-> <<>>,
     Metadata |-> <<>>]

\* Go's zero Entry{}
ZeroEntry == Entry(EmptyStr, EmptyStr, 0, 0)

\* Records a caller may pass to the lifecycle operations. Under ID_A (and
\* under the empty ID) the payload and both timestamps vary; under ID_B the
\* caller always passes the same record, RecordB.
InputIDs == IDs \cup {EmptyStr}
RecordB == Entry(ID_B, Content1, 1, 1)
InputEntries ==
    {Entry(id, c, ca, ua) : id \in {ID_A, EmptyStr}, c \in {Content1, Content2},
                            ca \in {0, 1}, ua \in {0, 1}}
    \cup {RecordB}
\* records of a LoadRecords batch: timestamps left zero (ID_A, the empty
\* ID) or given (RecordB)
BatchEntries ==
    {Entry(ID_A, Content2, 0, 0), Entry(EmptyStr, Content2, 0, 0), RecordB}
Batches ==
    UNION {[1..n -> BatchEntries] : n \in 0..MaxBatch}

(* ----------------------------- Go maps --------------------------------- *)
EmptyMap == <<>>
MapPut(m, k, v) == [x \in DOMAIN m \cup {k} |-> IF x = k THEN v ELSE m[x]]
MapDelete(m, k) == [x \in DOMAIN m \ {k} |-> m[x]]


(* ------------------- FileStore (file_store.go 1-793) ------------------- *)
\* A store value st is [records, deletedRecs, isDirty]; every operation maps
\* (st, arguments, time.Now()) to [st |-> the store afterwards, err |-> whether
\* an error was returned] (GetRecord: [rec, err]).

\* AddRecord stamping both timestamps unconditionally
FileStore_AddRecord_Stamping(st, record, t) ==
    IF record.ID = EmptyStr THEN [st |-> st, err |-> TRUE]
    ELSE IF record.ID \in DOMAIN st.records THEN [st |-> st, err |-> TRUE]
    ELSE [st |-> [st EXCEPT
                    !.records = MapPut(st.records, record.ID,
                                       [record EXCEPT !.CreatedAt = t,
                                                      !.UpdatedAt = t]),
                    !.isDirty = TRUE],
          err |-> FALSE]

FileStore_AddRecord(st, record, t) ==
    IF record.ID = EmptyStr THEN [st |-> st, err |-> TRUE]
    ELSE IF record.ID \in DOMAIN st.records THEN [st |-> st, err |-> TRUE]
    ELSE LET r1 == IF record.CreatedAt = 0
                   THEN [record EXCEPT !.CreatedAt = t] ELSE record
             r2 == IF r1.UpdatedAt = 0
                   THEN [r1 EXCEPT !.UpdatedAt = t] ELSE r1
         IN [st |-> [st EXCEPT !.records = MapPut(st.records, record.ID, r2),
                               !.isDirty = TRUE],
             err |-> FALSE]

FileStore_GetRecord(st, id) ==
    IF id \in DOMAIN st.records
    THEN [rec |-> st.records[id], err |-> FALSE]
    ELSE [rec |-> ZeroEntry, err |-> TRUE]

FileStore_UpdateRecord(st, record, t) ==
    IF record.ID \notin DOMAIN st.records THEN [st |-> st, err |-> TRUE]
    ELSE [st |-> [st EXCEPT
                    !.records = MapPut(st.records, record.ID,
                                       [record EXCEPT !.UpdatedAt = t]),
                    !.isDirty = TRUE],
          err |-> FALSE]

FileStore_DeleteRecord(st, id) ==
    IF id \notin DOMAIN st.records THEN [st |-> st, err |-> TRUE]
    ELSE [st |-> [st EXCEPT
                    !.deletedRecs = MapPut(st.deletedRecs, id, st.records[id]),
                    !.records = MapDelete(st.records, id),
                    !.isDirty = TRUE],
          err |-> FALSE]

\* RestoreRecord dropping the soft-deleted copy without moving it back
FileStore_RestoreRecord_Dropping(st, id) ==
    IF id \notin DOMAIN st.deletedRecs THEN [st |-> st, err |-> TRUE]
    ELSE [st |-> [st EXCEPT
                    !.deletedRecs = MapDelete(st.deletedRecs, id),
                    !.isDirty = TRUE],
          err |-> FALSE]

FileStore_RestoreRecord(st, id) ==
    IF id \notin DOMAIN st.deletedRecs THEN [st |-> st, err |-> TRUE]
    ELSE [st |-> [st EXCEPT
                    !.records = MapPut(st.records, id, st.deletedRecs[id]),
                    !.deletedRecs = MapDelete(st.deletedRecs, id),
                    !.isDirty = TRUE],
          err |-> FALSE]

FileStore_PurgeRecord(st, id) ==
    LET existsActive == id \in DOMAIN st.records
        existsDeleted == id \in DOMAIN st.deletedRecs
    IN IF ~existsActive /\ ~existsDeleted THEN [st |-> st, err |-> TRUE]
       ELSE IF existsActive
       THEN [st |-> [st EXCEPT !.records = MapDelete(st.records, id),
                               !.isDirty = TRUE],
             err |-> FALSE]
       ELSE [st |-> [st EXCEPT !.deletedRecs = MapDelete(st.deletedRecs, id),
                               !.isDirty = TRUE],
             err |-> FALSE]

\* the validation loop of LoadRecords: an empty ID, or an ID seen at an
\* earlier index
BatchInvalid(records) ==
    \E i \in 1..Len(records) :
        \/ records[i].ID = EmptyStr
        \/ \E j \in 1..(i - 1) : records[j].ID = records[i].ID

\* the processing loop of LoadRecords over records[i..], on the live map m
RECURSIVE LoadLoop(_, _, _, _)
LoadLoop(m, records, i, t) ==
    IF i > Len(records) THEN m
    ELSE LET record == records[i]
             exists == record.ID \in DOMAIN m
             r1 == IF ~exists /\ record.CreatedAt = 0
                   THEN [record EXCEPT !.CreatedAt = t] ELSE record
             r2 == IF r1.UpdatedAt = 0
                   THEN [r1 EXCEPT !.UpdatedAt = t] ELSE r1
         IN LoadLoop(MapPut(m, record.ID, r2), records, i + 1, t)

\* LoadRecords validating empty IDs only, not repeated ones
FileStore_LoadRecords_NoDuplicateCheck(st, records, t) ==
    IF Len(records) = 0 THEN [st |-> st, err |-> FALSE]
    ELSE IF \E i \in 1..Len(records) : records[i].ID = EmptyStr
    THEN [st |-> st, err |-> TRUE]
    ELSE [st |-> [st EXCEPT !.records = LoadLoop(st.records, records, 1, t),
                            !.isDirty = TRUE],
          err |-> FALSE]

FileStore_LoadRecords(st, records, t) ==
    IF Len(records) = 0 THEN [st |-> st, err |-> FALSE]
    ELSE IF BatchInvalid(records) THEN [st |-> st, err |-> TRUE]
    ELSE [st |-> [st EXCEPT !.records = LoadLoop(st.records, records, 1, t),
                            !.isDirty = TRUE],
          err |-> FALSE]

(* ------------- MemoryStore (file_store.go 794-1449) -------------------- *)
\* MemoryStore has no isDirty field: the isDirty component of its store
\* value is never written.

\* an AddRecord that does not look whether the ID is there already
MemoryStore_AddRecord_Overwriting(st, record, t) ==
    IF record.ID = EmptyStr THEN [st |-> st, err |-> TRUE]
    ELSE [st |-> [st EXCEPT !.records =
                     MapPut(st.records, record.ID,
                            [record EXCEPT !.CreatedAt = t,
                                           !.UpdatedAt = t])],
          err |-> FALSE]

MemoryStore_AddRecord(st, record, t) ==
    IF record.ID = EmptyStr THEN [st |-> st, err |-> TRUE]
    ELSE IF record.ID \in DOMAIN st.records THEN [st |-> st, err |-> TRUE]
    ELSE LET r1 == IF record.CreatedAt = 0
                   THEN [record EXCEPT !.CreatedAt = t] ELSE record
             r2 == IF r1.UpdatedAt = 0
                   THEN [r1 EXCEPT !.UpdatedAt = t] ELSE r1
         IN [st |-> [st EXCEPT !.records = MapPut(st.records, record.ID, r2)],
             err |-> FALSE]

MemoryStore_GetRecord(st, id) ==
    IF id \in DOMAIN st.records
    THEN [rec |-> st.records[id], err |-> FALSE]
    ELSE [rec |-> ZeroEntry, err |-> TRUE]

\* UpdateRecord without the existence check (an upsert)
MemoryStore_UpdateRecord_Upsert(st, record, t) ==
    LET r1 == IF record.UpdatedAt = 0
              THEN [record EXCEPT !.UpdatedAt = t] ELSE record
    IN [st |-> [st EXCEPT !.records = MapPut(st.records, record.ID, r1)],
        err |-> FALSE]

MemoryStore_UpdateRecord(st, record, t) ==
    IF record.ID \notin DOMAIN st.records THEN [st |-> st, err |-> TRUE]
    ELSE LET r1 == IF record.UpdatedAt = 0
                   THEN [record EXCEPT !.UpdatedAt = t] ELSE record
         IN [st |-> [st EXCEPT !.records = MapPut(st.records, record.ID, r1)],
             err |-> FALSE]

MemoryStore_DeleteRecord(st, id) ==
    IF id \notin DOMAIN st.records THEN [st |-> st, err |-> TRUE]
    ELSE [st |-> [st EXCEPT
                    !.deletedRecs = MapPut(st.deletedRecs, id, st.records[id]),
                    !.records = MapDelete(st.records, id)],
          err |-> FALSE]

MemoryStore_RestoreRecord(st, id) ==
    IF id \notin DOMAIN st.deletedRecs THEN [st |-> st, err |-> TRUE]
    ELSE [st |-> [st EXCEPT
                    !.records = MapPut(st.records, id, st.deletedRecs[id]),
                    !.deletedRecs = MapDelete(st.deletedRecs, id)],
          err |-> FALSE]

MemoryStore_PurgeRecord(st, id) ==
    LET existsActive == id \in DOMAIN st.records
        existsDeleted == id \in DOMAIN st.deletedRecs
    IN IF ~existsActive /\ ~existsDeleted THEN [st |-> st, err |-> TRUE]
       ELSE IF existsActive
       THEN [st |-> [st EXCEPT !.records = MapDelete(st.records, id)],
             err |-> FALSE]
       ELSE [st |-> [st EXCEPT !.deletedRecs = MapDelete(st.deletedRecs, id)],
             err |-> FALSE]

MemoryStore_LoadRecords(st, records, t) ==
    IF Len(records) = 0 THEN [st |-> st, err |-> FALSE]
    ELSE IF BatchInvalid(records) THEN [st |-> st, err |-> TRUE]
    ELSE [st |-> [st EXCEPT !.records = LoadLoop(st.records, records, 1, t)],
          err |-> FALSE]


(* ------------------- PgStore (unnamed/part_003) ------------------------ *)
\* The table knowledge_entry is a map from <<account_id, id>> to
\* [entry, is_deleted]. acct is the accountID of the PgStore that runs the
\* statement; dbErr says that the database fails a statement of the call
\* (every single-statement call is atomic in the database).
Accounts == {1}
IsUUID(id) == id \in IDs

\* knowledge_entry has "id UUID PRIMARY KEY": an INSERT fails when a row
\* of any account has the id
PrimaryKeyTaken_PerAccount(tbl, acct, id) == <<acct, id>> \in DOMAIN tbl
PrimaryKeyTaken(tbl, acct, id) == \E k \in DOMAIN tbl : k[2] = id

PgStore_AddRecord(tbl, acct, record, t, dbErr) ==
    IF record.ID = EmptyStr THEN [tbl |-> tbl, err |-> TRUE]
    ELSE IF ~IsUUID(record.ID) THEN [tbl |-> tbl, err |-> TRUE]
    ELSE IF dbErr THEN [tbl |-> tbl, err |-> TRUE]
    ELSE IF <<acct, record.ID>> \in DOMAIN tbl THEN [tbl |-> tbl, err |-> TRUE]
    ELSE IF PrimaryKeyTaken(tbl, acct, record.ID)
    THEN [tbl |-> tbl, err |-> TRUE]
    ELSE LET r1 == IF record.CreatedAt = 0
                   THEN [record EXCEPT !.CreatedAt = t] ELSE record
             r2 == IF r1.UpdatedAt = 0
                   THEN [r1 EXCEPT !.UpdatedAt = t] ELSE r1
         IN [tbl |-> MapPut(tbl, <<acct, record.ID>>,
                            [entry |-> r2, is_deleted |-> FALSE]),
             err |-> FALSE]

PgStore_GetRecord(tbl, acct, id, dbErr) ==
    IF ~IsUUID(id) THEN [rec |-> ZeroEntry, err |-> TRUE]
    ELSE IF dbErr THEN [rec |-> ZeroEntry, err |-> TRUE]
    ELSE IF <<acct, id>> \notin DOMAIN tbl THEN [rec |-> ZeroEntry, err |-> TRUE]
    ELSE IF tbl[<<acct, id>>].is_deleted THEN [rec |-> ZeroEntry, err |-> TRUE]
    ELSE [rec |-> tbl[<<acct, id>>].entry, err |-> FALSE]

\* sqlUpdateRecord sets every column but created_at and is_deleted
PgStore_UpdateRecord(tbl, acct, record, t, dbErr) ==
    LET k == <<acct, record.ID>> IN
    IF record.ID = EmptyStr THEN [tbl |-> tbl, err |-> TRUE]
    ELSE IF ~IsUUID(record.ID) THEN [tbl |-> tbl, err |-> TRUE]
    ELSE IF dbErr THEN [tbl |-> tbl, err |-> TRUE]
    ELSE IF ~(k \in DOMAIN tbl /\ ~tbl[k].is_deleted)
    THEN [tbl |-> tbl, err |-> TRUE]
    ELSE LET r1 == IF record.UpdatedAt = 0
                   THEN [record EXCEPT !.UpdatedAt = t] ELSE record
         IN [tbl |-> [tbl EXCEPT ![k].entry =
                        [r1 EXCEPT !.CreatedAt = tbl[k].entry.CreatedAt]],
             err |-> FALSE]

PgStore_DeleteRecord(tbl, acct, id, t, dbErr) ==
    LET k == <<acct, id>> IN
    IF ~IsUUID(id) THEN [tbl |-> tbl, err |-> TRUE]
    ELSE IF dbErr THEN [tbl |-> tbl, err |-> TRUE]
    ELSE IF ~(k \in DOMAIN tbl /\ ~tbl[k].is_deleted)
    THEN [tbl |-> tbl, err |-> TRUE]
    ELSE [tbl |-> [tbl EXCEPT ![k].is_deleted = TRUE,
                              ![k].entry.UpdatedAt = t],
          err |-> FALSE]

PgStore_RestoreRecord(tbl, acct, id, t, dbErr) ==
    LET k == <<acct, id>> IN
    IF ~IsUUID(id) THEN [tbl |-> tbl, err |-> TRUE]
    ELSE IF dbErr THEN [tbl |-> tbl, err |-> TRUE]
    ELSE IF ~(k \in DOMAIN tbl /\ tbl[k].is_deleted)
    THEN [tbl |-> tbl, err |-> TRUE]
    ELSE [tbl |-> [tbl EXCEPT ![k].is_deleted = FALSE,
                              ![k].entry.UpdatedAt = t],
          err |-> FALSE]

PgStore_PurgeRecord(tbl, acct, id, dbErr) ==
    LET k == <<acct, id>> IN
    IF ~IsUUID(id) THEN [tbl |-> tbl, err |-> TRUE]
    ELSE IF dbErr THEN [tbl |-> tbl, err |-> TRUE]
    ELSE IF k \notin DOMAIN tbl THEN [tbl |-> tbl, err |-> TRUE]
    ELSE [tbl |-> MapDelete(tbl, k), err |-> FALSE]

\* the validation loop of PgStore.LoadRecords
PgBatchInvalid(records) ==
    \E i \in 1..Len(records) :
        \/ records[i].ID = EmptyStr
        \/ ~IsUUID(records[i].ID)
        \/ \E j \in 1..(i - 1) : records[j].ID = records[i].ID

\* the processing loop of PgStore.LoadRecords inside the transaction tx, over
\* records[i..]; failAt is the index of the record at which the database
\* fails a statement (0: none). Returns the transaction's view of the table
\* and whether the loop returned an error.
RECURSIVE PgLoadLoop(_, _, _, _, _, _)
PgLoadLoop(tx, acct, records, i, t, failAt) ==
    IF i > Len(records) THEN [tbl |-> tx, err |-> FALSE]
    ELSE IF i = failAt THEN [tbl |-> tx, err |-> TRUE]
    ELSE LET record == records[i]
             k == <<acct, record.ID>>
             exists == k \in DOMAIN tx
             r1 == IF ~exists /\ record.CreatedAt = 0
                   THEN [record EXCEPT !.CreatedAt = t] ELSE record
             r2 == IF r1.UpdatedAt = 0
                   THEN [r1 EXCEPT !.UpdatedAt = t] ELSE r1
             tx2 == IF exists
                    THEN [tx EXCEPT ![k].entry =
                            [r2 EXCEPT !.CreatedAt = tx[k].entry.CreatedAt]]
                    ELSE MapPut(tx, k, [entry |-> r2, is_deleted |-> FALSE])
         IN IF ~exists /\ PrimaryKeyTaken(tx, acct, record.ID)
            THEN [tbl |-> tx, err |-> TRUE]
            ELSE PgLoadLoop(tx2, acct, records, i + 1, t, failAt)

\* failAt = Len(records) + 1: tx.Commit fails. On any error the deferred
\* tx.Rollback discards the transaction's writes.
PgStore_LoadRecords(tbl, acct, records, t, failAt) ==
    IF Len(records) = 0 THEN [tbl |-> tbl, err |-> FALSE]
    ELSE IF PgBatchInvalid(records) THEN [tbl |-> tbl, err |-> TRUE]
    ELSE LET run == PgLoadLoop(tbl, acct, records, 1, t, failAt)
         IN IF run.err \/ failAt = Len(records) + 1
            THEN [tbl |-> tbl, err |-> TRUE]
            ELSE [tbl |-> run.tbl, err |-> FALSE]


(* -------------------- filter evaluation: values ------------------------ *)
\* A Condition.Value (interface{}) and a reflected field value are tagged:
\* [t |-> "string", v |-> bytes], [t |-> "int", v |-> integer],
\* [t |-> "strslice", v |-> sequence of strings], [t |-> "bytes", v |-> bytes]
\* ([]byte), [t |-> "time", v |-> instant, loc |-> zone offset] (time.Time),
\* [t |-> "strmap", v |-> function from strings to strings]
\* (map[string]string), [t |-> "ifmap", v |-> function from strings to
\* values] (map[string]interface{}).
StrVal(s) == [t |-> "string", v |-> s]
IntVal(n) == [t |-> "int", v |-> n]
SliceVal(q) == [t |-> "strslice", v |-> q]
BytesVal(b) == [t |-> "bytes", v |-> b]
TimeVal(instant, loc) == [t |-> "time", v |-> instant, loc |-> loc]
StrMapVal(m) == [t |-> "strmap", v |-> m]
IfMapVal(m) == [t |-> "ifmap", v |-> m]

\* Go's int is 64 bits wide, the integers of the model checker 32. A model
\* integer n below Wide is the Go int n; Wide + d, for d in 0..8, is the Go
\* int 2^53 + d = 9007199254740992 + d. The encoding keeps the order.
Wide == 1000000000
\* "9007199254740", the decimal text of 2^53 without its last three digits
\* (992)
Pow53Head == <<57, 48, 48, 55, 49, 57, 57, 50, 53, 52, 55, 52, 48>>

\* Go's < on strings: bytewise lexicographic order
StrLess(a, b) ==
    \E k \in 1..Len(b) :
        /\ \A i \in 1..(k - 1) : i <= Len(a) /\ a[i] = b[i]
        /\ (Len(a) < k \/ a[k] < b[k])

\* strings.Contains
StrContains(str, sub) ==
    \E i \in 0..(Len(str) - Len(sub)) :
        SubSeq(str, i + 1, i + Len(sub)) = sub

\* strconv-style decimal text of an integer; of the integers from 2^53 on,
\* those up to 2^53 + 7 (their text differs from that of 2^53 in the last
\* digit only)
RECURSIVE FormatNat(_)
FormatNat(n) ==
    CASE n < 10 -> <<48 + n>>
      [] n >= 10 /\ n < Wide -> FormatNat(n \div 10) \o <<48 + (n % 10)>>
      [] n >= Wide /\ n <= Wide + 7 -> Pow53Head \o FormatNat(992 + (n - Wide))
FormatInt(n) == IF n < 0 THEN <<45>> \o FormatNat(-n) ELSE FormatNat(n)

RECURSIVE JoinSp(_)
JoinSp(q) ==
    IF Len(q) = 0 THEN <<>>
    ELSE IF Len(q) = 1 THEN q[1]
    ELSE q[1] \o <<32>> \o JoinSp(Tail(q))

\* Time.String(): the wall clock reading in the value's location, then the
\* zone offset. Readings are below 100 and print as two digits; offsets are
\* single digits east of UTC.
FormatTime(x) ==
    LET wall == x.v + x.loc
    IN <<48 + (wall \div 10), 48 + (wall % 10), 32, 43, 48 + x.loc>>

\* fmt.Sprintf("%v", x); maps are not formatted by the calls modelled here
Sprintf_v(x) ==
    CASE x.t = "string" -> x.v
      [] x.t = "int" -> FormatInt(x.v)
      [] x.t = "strslice" -> <<91>> \o JoinSp(x.v) \o <<93>>
      [] x.t = "bytes" ->
           <<91>> \o JoinSp([i \in 1..Len(x.v) |-> FormatNat(x.v[i])])
                  \o <<93>>
      [] x.t = "time" -> FormatTime(x)

IsDigit(c) == c >= 48 /\ c <= 57

\* length of the longest run of decimal digits of str starting at index i
RECURSIVE DigitRun(_, _)
DigitRun(str, i) ==
    IF i <= Len(str) /\ IsDigit(str[i]) THEN 1 + DigitRun(str, i + 1) ELSE 0

RECURSIVE DigitsValue(_)
DigitsValue(d) ==
    IF Len(d) = 0 THEN 0
    ELSE 10 * DigitsValue(SubSeq(d, 1, Len(d) - 1)) + (d[Len(d)] - 48)

\* the float64 nearest to 2^53 + d, as an offset from 2^53: float64 has a
\* 53-bit mantissa, so from 2^53 to 2^54 only the even integers are
\* representable and a tie goes to the even mantissa (the multiple of 4)
RoundFloat64(d) ==
    IF d % 2 = 0 THEN d
    ELSE IF (d + 1) % 4 = 0 THEN d + 1 ELSE d - 1

\* strconv.ParseFloat(d, 64) of a run of decimal digits: exact below 10^9,
\* rounded to the nearest float64 from 2^53 on (texts of 9007199254740992
\* to ...999); other long texts are outside the model
ParseDigits(d) ==
    CASE Len(d) <= 9 -> DigitsValue(d)
      [] Len(d) = 16 /\ SubSeq(d, 1, 13) = Pow53Head
                     /\ DigitsValue(SubSeq(d, 14, 16)) >= 992 ->
           Wide + RoundFloat64(DigitsValue(SubSeq(d, 14, 16)) - 992)

\* fmt.Sscanf(str, "%f", &num): scans the longest float token at the start of
\* str and ignores what follows it; an empty token is an error. Modelled for
\* texts whose token is an optionally signed run of decimal digits (no '.',
\* exponent, '_', hex prefix, "inf" or "nan", no leading blanks).
Sscanf_f(str) ==
    LET signed == Len(str) > 0 /\ str[1] \in {43, 45}
        from == IF signed THEN 2 ELSE 1
        n == DigitRun(str, from)
        mag == ParseDigits(SubSeq(str, from, from + n - 1))
    IN IF n = 0 THEN [err |-> TRUE, num |-> 0]
       ELSE [err |-> FALSE,
             num |-> IF signed /\ str[1] = 45 THEN -mag ELSE mag]

(* -------------------- filter evaluation: fields ------------------------ *)
\* the exported fields of Entry that reflect.FieldByName finds
EntryFieldNames ==
    {"ID", "Category", "ContentType", "Content", "Importance", "CreatedAt",
     "UpdatedAt", "ExpiresAt", "SourceID", "SourceType", "OwnerID",
     "OwnerType", "SubjectIDs", "SubjectType", "Tags", "References",
     "Metadata"}

\* reflect.ValueOf(record).FieldByName(name).Interface(), for the fields
\* that the model carries. Stored timestamps are instants; their location
\* is taken to be UTC.
FieldValue(record, name) ==
    CASE name = "ID" -> StrVal(record.ID)
      [] name = "Category" -> StrVal(record.Category)
      [] name = "Content" -> BytesVal(record.Content)
      [] name = "Importance" -> IntVal(record.Importance)
      [] name = "CreatedAt" -> TimeVal(record.CreatedAt, 0)
      [] name = "UpdatedAt" -> TimeVal(record.UpdatedAt, 0)
      [] name = "ExpiresAt" -> TimeVal(record.ExpiresAt, 0)
      [] name = "Tags" -> SliceVal(record.Tags)
      [] name = "SubjectIDs" -> SliceVal(record.SubjectIDs)
      [] name = "Metadata" -> StrMapVal(record.Metadata)

\* reflect.Value.Kind() == reflect.Slice
IsSliceKind(value) == value.t \in {"strslice", "bytes"}

\* the elements of a slice value, as field.Index(i).Interface() yields them
SliceItems(value) ==
    IF value.t = "strslice"
    THEN [i \in 1..Len(value.v) |-> StrVal(value.v[i])]
    ELSE [i \in 1..Len(value.v) |-> IntVal(value.v[i])]

\* a comparison of two times by their printed text
CompareTimes_Printed(fieldTime, operator, valueTime) ==
    IF operator = "=" THEN FormatTime(fieldTime) = FormatTime(valueTime)
    ELSE IF operator = "!=" THEN FormatTime(fieldTime) # FormatTime(valueTime)
    ELSE IF operator = ">"
    THEN StrLess(FormatTime(valueTime), FormatTime(fieldTime))
    ELSE IF operator = "<"
    THEN StrLess(FormatTime(fieldTime), FormatTime(valueTime))
    ELSE IF operator = ">="
    THEN ~StrLess(FormatTime(fieldTime), FormatTime(valueTime))
    ELSE IF operator = "<="
    THEN ~StrLess(FormatTime(valueTime), FormatTime(fieldTime))
    ELSE FALSE

\* the comparison of two time.Time values in compareValues: Equal, After and
\* Before compare the instants
CompareTimes(fieldTime, operator, valueTime) ==
    IF operator = "=" THEN fieldTime.v = valueTime.v
    ELSE IF operator = "!=" THEN fieldTime.v # valueTime.v
    ELSE IF operator = ">" THEN fieldTime.v > valueTime.v
    ELSE IF operator = "<" THEN fieldTime.v < valueTime.v
    ELSE IF operator = ">=" THEN fieldTime.v >= valueTime.v
    ELSE IF operator = "<=" THEN fieldTime.v <= valueTime.v
    ELSE FALSE

(* -------------------- FileStore filter evaluator ----------------------- *)
\* the comparisons of compareStringValues, given what the two Sscanf calls
\* returned (f for the field's text, v for the value's)
FileStore_compareScanned(fieldStr, operator, valueStr, f, v) ==
    LET numeric == ~f.err /\ ~v.err
    IN IF operator = "=" THEN fieldStr = valueStr
       ELSE IF operator = "!=" THEN fieldStr # valueStr
       ELSE IF operator = "CONTAINS" THEN StrContains(fieldStr, valueStr)
       ELSE IF operator = ">"
       THEN IF numeric THEN f.num > v.num ELSE StrLess(valueStr, fieldStr)
       ELSE IF operator = "<"
       THEN IF numeric THEN f.num < v.num ELSE StrLess(fieldStr, valueStr)
       ELSE IF operator = ">="
       THEN IF numeric THEN f.num >= v.num ELSE ~StrLess(fieldStr, valueStr)
       ELSE IF operator = "<="
       THEN IF numeric THEN f.num <= v.num ELSE ~StrLess(valueStr, fieldStr)
       ELSE FALSE

FileStore_compareStringValues(fieldStr, operator, valueStr) ==
    FileStore_compareScanned(fieldStr, operator, valueStr,
                             Sscanf_f(fieldStr), Sscanf_f(valueStr))

FileStore_compareValues(fieldValue, operator, conditionValue) ==
    IF fieldValue.t = "time" /\ conditionValue.t = "time"
    THEN CompareTimes(fieldValue, operator, conditionValue)
    ELSE IF fieldValue.t = "bytes" /\ conditionValue.t \in {"bytes", "string"}
    THEN IF operator = "=" THEN fieldValue.v = conditionValue.v
         ELSE IF operator = "!=" THEN fieldValue.v # conditionValue.v
         ELSE IF operator = "CONTAINS"
         THEN StrContains(fieldValue.v, conditionValue.v)
         ELSE FileStore_compareStringValues(fieldValue.v, operator,
                                            conditionValue.v)
    ELSE IF fieldValue.t = "string" /\ conditionValue.t = "string"
    THEN FileStore_compareStringValues(fieldValue.v, operator, conditionValue.v)
    ELSE FileStore_compareStringValues(Sprintf_v(fieldValue), operator,
                                       Sprintf_v(conditionValue))

FileStore_matchesSlice(field, condition) ==
    IF condition.Operator = "CONTAINS"
    THEN \E i \in 1..Len(field.v) :
            Sprintf_v(SliceItems(field)[i]) = Sprintf_v(condition.Value)
    ELSE FALSE

FileStore_matchesMetadata(metadata, condition) ==
    LET isMap == condition.Value.t = "strmap"
        condMap == condition.Value.v
        has(k) == k \in DOMAIN metadata /\ metadata[k] = condMap[k]
    IN IF condition.Operator = "="
       THEN IF ~isMap THEN FALSE
            ELSE IF DOMAIN condMap = {} THEN DOMAIN metadata = {}
            ELSE \A k \in DOMAIN condMap : has(k)
       ELSE IF condition.Operator = "!="
       THEN IF ~isMap THEN TRUE
            ELSE IF DOMAIN condMap = {} THEN DOMAIN metadata # {}
            ELSE \E k \in DOMAIN condMap : ~has(k)
       ELSE IF condition.Operator = "CONTAINS"
       THEN IF isMap /\ DOMAIN condMap # {}
            THEN \E k \in DOMAIN condMap : has(k)
            ELSE IF condition.Value.t = "string"
            THEN condition.Value.v \in DOMAIN metadata
            ELSE FALSE
       ELSE FALSE

\* matchesCondition that lets a field it does not find match
FileStore_matchesCondition_UnknownMatches(record, condition) ==
    IF condition.Field = "Metadata"
    THEN FileStore_matchesMetadata(record.Metadata, condition)
    ELSE IF /\ condition.Field \in {"CreatedAt", "UpdatedAt", "ExpiresAt"}
            /\ condition.Value.t = "time"
    THEN FileStore_compareValues(FieldValue(record, condition.Field),
                                 condition.Operator, condition.Value)
    ELSE IF condition.Field = "Content" /\ condition.Value.t = "bytes"
    THEN FileStore_compareValues(BytesVal(record.Content),
                                 condition.Operator, condition.Value)
    ELSE IF condition.Field = "Content" /\ condition.Value.t = "string"
    THEN FileStore_compareValues(BytesVal(record.Content),
                                 condition.Operator,
                                 BytesVal(condition.Value.v))
    ELSE IF /\ condition.Field = "Tags"
            /\ condition.Operator = "CONTAINS"
            /\ condition.Value.t = "string"
    THEN \E i \in 1..Len(record.Tags) : record.Tags[i] = condition.Value.v
    ELSE IF condition.Field \notin EntryFieldNames THEN TRUE
    ELSE LET field == FieldValue(record, condition.Field) IN
         IF IsSliceKind(field) /\ condition.Operator = "CONTAINS"
         THEN FileStore_matchesSlice(field, condition)
         ELSE FileStore_compareValues(field, condition.Operator,
                                      condition.Value)

FileStore_matchesCondition(record, condition) ==
    IF condition.Field = "Metadata"
    THEN FileStore_matchesMetadata(record.Metadata, condition)
    ELSE IF /\ condition.Field \in {"CreatedAt", "UpdatedAt", "ExpiresAt"}
            /\ condition.Value.t = "time"
    THEN FileStore_compareValues(FieldValue(record, condition.Field),
                                 condition.Operator, condition.Value)
    ELSE IF condition.Field = "Content" /\ condition.Value.t = "bytes"
    THEN FileStore_compareValues(BytesVal(record.Content),
                                 condition.Operator, condition.Value)
    ELSE IF condition.Field = "Content" /\ condition.Value.t = "string"
    THEN FileStore_compareValues(BytesVal(record.Content),
                                 condition.Operator,
                                 BytesVal(condition.Value.v))
    ELSE IF /\ condition.Field = "Tags"
            /\ condition.Operator = "CONTAINS"
            /\ condition.Value.t = "string"
    THEN \E i \in 1..Len(record.Tags) : record.Tags[i] = condition.Value.v
    ELSE IF condition.Field \notin EntryFieldNames THEN FALSE
    ELSE LET field == FieldValue(record, condition.Field) IN
         IF IsSliceKind(field) /\ condition.Operator = "CONTAINS"
         THEN FileStore_matchesSlice(field, condition)
         ELSE FileStore_compareValues(field, condition.Operator,
                                      condition.Value)

\* matchesFilter whose OR looks at the group's conditions only
RECURSIVE FileStore_matchesFilter_FlatOr(_, _)
FileStore_matchesFilter_FlatOr(record, group) ==
    LET operator == IF group.Operator = "" THEN "AND" ELSE group.Operator
        conditionResults ==
            [i \in 1..Len(group.Conditions) |->
                FileStore_matchesCondition(record, group.Conditions[i])]
        groupResults ==
            [i \in 1..Len(group.Groups) |->
                FileStore_matchesFilter_FlatOr(record, group.Groups[i])]
        allResults == conditionResults \o groupResults
    IN IF Len(group.Conditions) = 0 /\ Len(group.Groups) = 0 THEN TRUE
       ELSE IF operator = "AND"
       THEN IF \E i \in 1..Len(allResults) : ~allResults[i] THEN FALSE
            ELSE Len(allResults) > 0
       ELSE IF operator = "OR"
       THEN \E i \in 1..Len(conditionResults) : conditionResults[i]
       ELSE IF operator = "NOT"
       THEN IF Len(allResults) = 1 THEN ~allResults[1]
            ELSE ~(\E i \in 1..Len(allResults) : allResults[i])
       ELSE FALSE

\* the operator switch whose OR loop starts at the second result
FileStore_applyOperator_OrSkipsFirst(operator, allResults) ==
    IF operator = "AND"
    THEN IF \E i \in 1..Len(allResults) : ~allResults[i] THEN FALSE
         ELSE Len(allResults) > 0
    ELSE IF operator = "OR"
    THEN \E i \in 2..Len(allResults) : allResults[i]
    ELSE IF operator = "NOT"
    THEN IF Len(allResults) = 1 THEN ~allResults[1]
         ELSE ~(\E i \in 1..Len(allResults) : allResults[i])
    ELSE FALSE

\* the switch of matchesFilter over the group's operator, applied to the
\* results of the conditions followed by those of the nested groups
FileStore_applyOperator(operator, allResults) ==
    IF operator = "AND"
    THEN IF \E i \in 1..Len(allResults) : ~allResults[i] THEN FALSE
         ELSE Len(allResults) > 0
    ELSE IF operator = "OR"
    THEN \E i \in 1..Len(allResults) : allResults[i]
    ELSE IF operator = "NOT"
    THEN IF Len(allResults) = 1 THEN ~allResults[1]
         ELSE ~(\E i \in 1..Len(allResults) : allResults[i])
    ELSE FALSE

RECURSIVE FileStore_matchesFilter(_, _)
FileStore_matchesFilter(record, group) ==
    LET operator == IF group.Operator = "" THEN "AND" ELSE group.Operator
        conditionResults ==
            [i \in 1..Len(group.Conditions) |->
                FileStore_matchesCondition(record, group.Conditions[i])]
        groupResults ==
            [i \in 1..Len(group.Groups) |->
                FileStore_matchesFilter(record, group.Groups[i])]
    IN IF Len(group.Conditions) = 0 /\ Len(group.Groups) = 0 THEN TRUE
       ELSE FileStore_applyOperator(operator,
                                    conditionResults \o groupResults)

(* -------------------- MemoryStore filter evaluator --------------------- *)
\* the part of MemoryStore.compareValues for a []byte field and the
\* operators =, != and CONTAINS
MemoryStore_compareBytes(fieldValue, operator, conditionValue) ==
    LET fieldString == fieldValue.v
        valueStr == IF conditionValue.t \in {"bytes", "string"}
                    THEN conditionValue.v
                    ELSE Sprintf_v(conditionValue)
    IN IF operator = "=" THEN fieldString = valueStr
       ELSE IF operator = "!=" THEN fieldString # valueStr
       ELSE StrContains(fieldString, valueStr)

\* the generic comparisons of MemoryStore.compareValues on the printed
\* texts, given what the two Sscanf calls returned
MemoryStore_compareScanned(fieldStr, operator, valueStr, f, v) ==
    LET numeric == ~f.err /\ ~v.err
    IN IF operator = "=" THEN fieldStr = valueStr
       ELSE IF operator = "!=" THEN fieldStr # valueStr
       ELSE IF operator = "CONTAINS" THEN StrContains(fieldStr, valueStr)
       ELSE IF operator = ">"
       THEN IF numeric THEN f.num > v.num ELSE StrLess(valueStr, fieldStr)
       ELSE IF operator = "<"
       THEN IF numeric THEN f.num < v.num ELSE StrLess(fieldStr, valueStr)
       ELSE IF operator = ">="
       THEN IF numeric THEN f.num >= v.num ELSE ~StrLess(fieldStr, valueStr)
       ELSE IF operator = "<="
       THEN IF numeric THEN f.num <= v.num ELSE ~StrLess(valueStr, fieldStr)
       ELSE FALSE

MemoryStore_compareStrings(fieldStr, operator, valueStr) ==
    MemoryStore_compareScanned(fieldStr, operator, valueStr,
                               Sscanf_f(fieldStr), Sscanf_f(valueStr))

MemoryStore_compareValues(fieldValue, operator, conditionValue) ==
    IF fieldValue.t = "time" /\ conditionValue.t = "time"
    THEN CompareTimes(fieldValue, operator, conditionValue)
    ELSE IF fieldValue.t = "bytes" /\ operator \in {"=", "!=", "CONTAINS"}
    THEN MemoryStore_compareBytes(fieldValue, operator, conditionValue)
    ELSE MemoryStore_compareStrings(Sprintf_v(fieldValue), operator,
                                    Sprintf_v(conditionValue))

MemoryStore_matchesSlice(field, condition) ==
    IF condition.Operator = "CONTAINS"
    THEN \E i \in 1..Len(field.v) :
            Sprintf_v(SliceItems(field)[i]) = Sprintf_v(condition.Value)
    ELSE FALSE

MemoryStore_matchesMetadata(metadata, condition) ==
    IF condition.Value.t = "ifmap"
    THEN LET metaCondition == condition.Value.v IN
         \A key \in DOMAIN metaCondition :
            /\ key \in DOMAIN metadata
            /\ MemoryStore_compareValues(StrVal(metadata[key]),
                                         condition.Operator,
                                         metaCondition[key])
    ELSE IF condition.Value.t = "string"
    THEN LET exists == condition.Value.v \in DOMAIN metadata IN
         IF condition.Operator = "EXISTS" THEN exists
         ELSE IF condition.Operator = "NOT EXISTS" THEN ~exists
         ELSE FALSE
    ELSE FALSE

MemoryStore_matchesCondition(record, condition) ==
    IF condition.Field = "Metadata"
    THEN MemoryStore_matchesMetadata(record.Metadata, condition)
    ELSE IF /\ condition.Field \in {"CreatedAt", "UpdatedAt", "ExpiresAt"}
            /\ condition.Value.t = "time"
    THEN MemoryStore_compareValues(FieldValue(record, condition.Field),
                                   condition.Operator, condition.Value)
    ELSE IF /\ condition.Field = "Content"
            /\ condition.Value.t \in {"string", "bytes"}
            /\ condition.Operator = "="
    THEN record.Content = condition.Value.v
    ELSE IF /\ condition.Field = "Content"
            /\ condition.Value.t \in {"string", "bytes"}
            /\ condition.Operator = "CONTAINS"
    THEN StrContains(record.Content, condition.Value.v)
    ELSE IF condition.Field \notin EntryFieldNames THEN FALSE
    ELSE LET value == FieldValue(record, condition.Field) IN
         IF IsSliceKind(value)
         THEN MemoryStore_matchesSlice(value, condition)
         ELSE MemoryStore_compareValues(value, condition.Operator,
                                        condition.Value)

\* matchesFilter whose NOT negates the conjunction of the children
RECURSIVE MemoryStore_matchesFilter_NotAll(_, _)
MemoryStore_matchesFilter_NotAll(record, group) ==
    LET condMatch(i) ==
            MemoryStore_matchesCondition(record, group.Conditions[i])
        groupMatch(i) ==
            MemoryStore_matchesFilter_NotAll(record, group.Groups[i])
    IN IF Len(group.Conditions) = 0 /\ Len(group.Groups) = 0 THEN TRUE
       ELSE IF group.Operator = "AND"
       THEN IF \E i \in 1..Len(group.Conditions) : ~condMatch(i) THEN FALSE
            ELSE IF \E i \in 1..Len(group.Groups) : ~groupMatch(i) THEN FALSE
            ELSE TRUE
       ELSE IF group.Operator = "OR"
       THEN IF \E i \in 1..Len(group.Conditions) : condMatch(i) THEN TRUE
            ELSE IF \E i \in 1..Len(group.Groups) : groupMatch(i) THEN TRUE
            ELSE FALSE
       ELSE IF group.Operator = "NOT"
       THEN \/ \E i \in 1..Len(group.Conditions) : ~condMatch(i)
            \/ \E i \in 1..Len(group.Groups) : ~groupMatch(i)
       ELSE FALSE

\* the loops of MemoryStore.matchesFilter return at the first deciding child
RECURSIVE MemoryStore_matchesFilter(_, _)
MemoryStore_matchesFilter(record, group) ==
    LET condMatch(i) ==
            MemoryStore_matchesCondition(record, group.Conditions[i])
        groupMatch(i) ==
            MemoryStore_matchesFilter(record, group.Groups[i])
    IN IF Len(group.Conditions) = 0 /\ Len(group.Groups) = 0 THEN TRUE
       ELSE IF group.Operator = "AND"
       THEN IF \E i \in 1..Len(group.Conditions) : ~condMatch(i) THEN FALSE
            ELSE IF \E i \in 1..Len(group.Groups) : ~groupMatch(i) THEN FALSE
            ELSE TRUE
       ELSE IF group.Operator = "OR"
       THEN IF \E i \in 1..Len(group.Conditions) : condMatch(i) THEN TRUE
            ELSE IF \E i \in 1..Len(group.Groups) : groupMatch(i) THEN TRUE
            ELSE FALSE
       ELSE IF group.Operator = "NOT"
       THEN LET result == ~(\E i \in 1..Len(group.Conditions) : condMatch(i))
            IN IF result /\ (\E i \in 1..Len(group.Groups) : groupMatch(i))
               THEN FALSE
               ELSE result
       ELSE FALSE

(* -------------------------- SearchRecords ------------------------------ *)
\* Filter (knowledge.go)
Filter(rootGroup, limit, offset, orderBy, orderDir, includeDeleted, onlyDeleted) ==
    [RootGroup |-> rootGroup, Limit |-> limit, Offset |-> offset,
     OrderBy |-> orderBy, OrderDir |-> orderDir,
     IncludeDeleted |-> includeDeleted, OnlyDeleted |-> onlyDeleted]

\* Ranging over a Go map visits its keys in an order that is not specified:
\* every sequence that lists the keys of S once
RECURSIVE Orderings(_)
Orderings(S) ==
    IF S = {} THEN {<<>>}
    ELSE UNION {{<<x>> \o q : q \in Orderings(S \ {x})} : x \in S}

\* every rearrangement of the sequence q
Rearrangements(q) ==
    {[i \in 1..Len(q) |-> q[p[i]]] : p \in Orderings(1..Len(q))}

\* a less function that takes every OrderDir for ascending
sortLess_Ascending(a, b, orderBy, orderDir) ==
    IF orderBy \notin EntryFieldNames THEN FALSE
    ELSE LET iValue == FieldValue(a, orderBy)
             jValue == FieldValue(b, orderBy)
         IN CASE iValue.t = "string" -> StrLess(iValue.v, jValue.v)
              [] iValue.t \in {"int", "time"} -> iValue.v < jValue.v
              [] OTHER -> StrLess(Sprintf_v(iValue), Sprintf_v(jValue))

\* the less function that sortRecords hands to sort.Slice (the same in both
\* stores)
sortLess(a, b, orderBy, orderDir) ==
    IF orderBy \notin EntryFieldNames THEN FALSE
    ELSE LET iValue == FieldValue(a, orderBy)
             jValue == FieldValue(b, orderBy)
             ascending == orderDir # "DESC"
         IN CASE iValue.t = "string" ->
                   IF ascending THEN StrLess(iValue.v, jValue.v)
                   ELSE StrLess(jValue.v, iValue.v)
              [] iValue.t = "int" ->
                   IF ascending THEN iValue.v < jValue.v
                   ELSE iValue.v > jValue.v
              [] iValue.t = "time" ->
                   IF ascending THEN iValue.v < jValue.v
                   ELSE jValue.v < iValue.v
              [] OTHER ->
                   IF ascending
                   THEN StrLess(Sprintf_v(iValue), Sprintf_v(jValue))
                   ELSE StrLess(Sprintf_v(jValue), Sprintf_v(iValue))

\* sort.Slice is not stable: it leaves the slice in some order in which no
\* element is less than one before it
FileStore_sortRecords(results, orderBy, orderDir) ==
    {q \in Rearrangements(results) :
        \A i, j \in 1..Len(q) :
            i < j => ~sortLess(q[j], q[i], orderBy, orderDir)}

MemoryStore_sortRecords(results, orderBy, orderDir) ==
    {q \in Rearrangements(results) :
        \A i, j \in 1..Len(q) :
            i < j => ~sortLess(q[j], q[i], orderBy, orderDir)}

\* what SearchRecords returns: the records, the error, and whether the call
\* ended in a run-time panic instead of returning
SearchResult(recs) == [recs |-> recs, err |-> FALSE, panic |-> FALSE]
SearchPanic == [recs |-> <<>>, err |-> FALSE, panic |-> TRUE]

\* recordsToSearch that takes in the deleted records whatever the flags say
FileStore_recordsToSearch_WithDeleted(st, filter) ==
    LET active == IF ~filter.OnlyDeleted THEN st.records ELSE EmptyMap
        deleted == st.deletedRecs
    IN [k \in DOMAIN active \cup DOMAIN deleted |->
           IF k \in DOMAIN deleted THEN deleted[k] ELSE active[k]]

\* the map recordsToSearch that FileStore.SearchRecords builds
FileStore_recordsToSearch(st, filter) ==
    LET active == IF ~filter.OnlyDeleted THEN st.records ELSE EmptyMap
        deleted == IF filter.IncludeDeleted \/ filter.OnlyDeleted
                   THEN st.deletedRecs ELSE EmptyMap
    IN [k \in DOMAIN active \cup DOMAIN deleted |->
           IF k \in DOMAIN deleted THEN deleted[k] ELSE active[k]]

\* a pagination step that cuts the list to Limit before it skips Offset
FileStore_paginate_LimitFirst(results, filter) ==
    LET cut == IF filter.Limit > 0 /\ filter.Limit < Len(results)
               THEN SubSeq(results, 1, filter.Limit)
               ELSE results
    IN IF filter.Offset > 0
       THEN SubSeq(cut, filter.Offset + 1, Len(cut))
       ELSE cut

\* the pagination step of FileStore.SearchRecords
FileStore_paginate(results, filter) ==
    IF Len(results) = 0 THEN results
    ELSE IF filter.Offset > 0 /\ filter.Offset >= Len(results) THEN <<>>
    ELSE LET rest == IF filter.Offset > 0
                     THEN SubSeq(results, filter.Offset + 1, Len(results))
                     ELSE results
         IN IF filter.Limit > 0 /\ filter.Limit < Len(rest)
            THEN SubSeq(rest, 1, filter.Limit)
            ELSE rest

\* the set of results FileStore.SearchRecords may return
FileStore_SearchRecords(st, filter) ==
    LET recordsToSearch == FileStore_recordsToSearch(st, filter)
        matching == {k \in DOMAIN recordsToSearch :
                        FileStore_matchesFilter(recordsToSearch[k],
                                                filter.RootGroup)}
        unsorted == {[i \in 1..Len(o) |-> recordsToSearch[o[i]]] :
                        o \in Orderings(matching)}
        sorted == IF filter.OrderBy # ""
                  THEN UNION {FileStore_sortRecords(q, filter.OrderBy,
                                                    filter.OrderDir) :
                                 q \in unsorted}
                  ELSE unsorted
    IN {SearchResult(FileStore_paginate(q, filter)) : q \in sorted}

\* the pagination step of MemoryStore.SearchRecords; a negative start makes
\* the slice expression results[start:end] panic
MemoryStore_paginate(results, filter) ==
    IF filter.Limit > 0 \/ filter.Offset > 0
    THEN LET start == IF filter.Offset > Len(results) THEN Len(results)
                      ELSE filter.Offset
             end == IF filter.Limit > 0 /\ start + filter.Limit < Len(results)
                    THEN start + filter.Limit
                    ELSE Len(results)
         IN IF start < 0 THEN SearchPanic
            ELSE SearchResult(SubSeq(results, start + 1, end))
    ELSE SearchResult(results)

\* the set of results MemoryStore.SearchRecords may return
MemoryStore_SearchRecords(st, filter) ==
    LET keep(record) ==
            ~(filter.RootGroup.Operator # ""
                /\ ~MemoryStore_matchesFilter(record, filter.RootGroup))
        active == IF ~filter.OnlyDeleted
                  THEN {k \in DOMAIN st.records : keep(st.records[k])}
                  ELSE {}
        deleted == IF filter.IncludeDeleted \/ filter.OnlyDeleted
                   THEN {k \in DOMAIN st.deletedRecs :
                            keep(st.deletedRecs[k])}
                   ELSE {}
        unsorted == {[i \in 1..Len(o) |-> st.records[o[i]]]
                       \o [i \in 1..Len(d) |-> st.deletedRecs[d[i]]] :
                        o \in Orderings(active), d \in Orderings(deleted)}
        sorted == IF filter.OrderBy # ""
                  THEN UNION {MemoryStore_sortRecords(q, filter.OrderBy,
                                                      filter.OrderDir) :
                                 q \in unsorted}
                  ELSE unsorted
    IN {MemoryStore_paginate(q, filter) : q \in sorted}

\* the set of results MemoryStore.SearchRecords of memory_store.go may
\* return: its loop over the live records skips every record when
\* IncludeDeleted or OnlyDeleted is set. Its filter stage is modelled for
\* root groups without an operator, for which the stage is not run; its
\* sortRecords and pagination are those of the MemoryStore above.
MemoryStore2_SearchRecords(st, filter) ==
    LET keep(record) == CASE filter.RootGroup.Operator = "" -> TRUE
        active == {k \in DOMAIN st.records :
                      IF filter.IncludeDeleted \/ filter.OnlyDeleted
                      THEN FALSE
                      ELSE keep(st.records[k])}
        deleted == IF filter.IncludeDeleted \/ filter.OnlyDeleted
                   THEN {k \in DOMAIN st.deletedRecs :
                            keep(st.deletedRecs[k])}
                   ELSE {}
        unsorted == {[i \in 1..Len(o) |-> st.records[o[i]]]
                       \o [i \in 1..Len(d) |-> st.deletedRecs[d[i]]] :
                        o \in Orderings(active), d \in Orderings(deleted)}
        sorted == IF filter.OrderBy # ""
                  THEN UNION {MemoryStore_sortRecords(q, filter.OrderBy,
                                                      filter.OrderDir) :
                                 q \in unsorted}
                  ELSE unsorted
    IN {MemoryStore_paginate(q, filter) : q \in sorted}

(* -------------------- filter evaluation: inputs ------------------------ *)
\* "u", "b": tags
TagU == <<117>>
TagB == <<98>>
FilterEntry(id, category, importance, tags) ==
    [Entry(id, Content1, 1, 1) EXCEPT !.Category = category,
                                      !.Importance = importance,
                                      !.Tags = tags]
\* the records the filter evaluator is run on
FilterRecords ==
    {FilterEntry(ID_A, CategoryFact, 5, <<TagB>>),
     FilterEntry(ID_B, CategoryMessage, 100, <<TagU, TagB>>),
     FilterEntry(ID_X, CategoryFact, 50, <<>>)}

Cond(field, operator, value) ==
    [Field |-> field, Operator |-> operator, Value |-> value]
\* the conditions the sampled filter groups are built from
CondSet ==
    {Cond("Category", "=", StrVal(CategoryFact)),
     Cond("Importance", ">", IntVal(25)),
     Cond("Tags", "CONTAINS", StrVal(TagU))}
CondSeqs(n) == UNION {[1..k -> CondSet] : k \in 0..n}

Group(operator, conditions, groups) ==
    [Operator |-> operator, Conditions |-> conditions, Groups |-> groups]
EmptyGroup == Group("", <<>>, <<>>)
\* OpAnd, OpOr, OpNot and the unset operator
FilterOps == {"AND", "OR", "NOT", ""}

\* Filter groups of nesting depth 0, 1 and 2.
LeafGroups ==
    {Group(op, cs, <<>>) : op \in FilterOps, cs \in CondSeqs(MaxConds)}
SmallLeafGroups ==
    {Group(op, cs, <<>>) : op \in FilterOps, cs \in CondSeqs(1)}
MidGroups1 ==
    {Group(op, cs, <<l>>) :
        op \in FilterOps, cs \in CondSeqs(1), l \in LeafGroups}
MidGroups2 ==
    {Group(op, cs, <<p[1], p[2]>>) :
        op \in FilterOps, cs \in CondSeqs(1),
        p \in LeafGroups \X SmallLeafGroups}
TopGroups ==
    {Group(op, <<>>, <<m>>) : op \in FilterOps, m \in MidGroups1}
SampleGroups == LeafGroups \cup MidGroups1 \cup MidGroups2 \cup TopGroups

NoQuery == [rec |-> ZeroEntry, group |-> EmptyGroup]
NoResult == [done |-> FALSE, file |-> FALSE, memory |-> FALSE]

(* ----------------------------- state ----------------------------------- *)
VARIABLES
    kind,         \* the backend this store is: "file", "memory" or "pg"
    records,      \* FileStore.records / MemoryStore.records
    deletedRecs,  \* FileStore.deletedRecs / MemoryStore.deletedRecs
    isDirty,      \* FileStore.isDirty
    rows,         \* the table knowledge_entry (PgStore)
    now,          \* what time.Now() returns
    last,         \* the last call: [op, id, ok]
    query,        \* a record and a filter group handed to matchesFilter
    result        \* what matchesFilter returned for query: [done, file, memory]

vars == <<kind, records, deletedRecs, isDirty, rows, now, last, query, result>>

St == [records |-> records, deletedRecs |-> deletedRecs, isDirty |-> isDirty]

InProcess == kind \in {"file", "memory"}

\* the Store interface, dispatched on the in-process backend behind it
Store_AddRecord(st, record, t) ==
    IF kind = "file" THEN FileStore_AddRecord(st, record, t)
    ELSE MemoryStore_AddRecord(st, record, t)
Store_GetRecord(st, id) ==
    IF kind = "file" THEN FileStore_GetRecord(st, id)
    ELSE MemoryStore_GetRecord(st, id)
Store_UpdateRecord(st, record, t) ==
    IF kind = "file" THEN FileStore_UpdateRecord(st, record, t)
    ELSE MemoryStore_UpdateRecord(st, record, t)
Store_DeleteRecord(st, id) ==
    IF kind = "file" THEN FileStore_DeleteRecord(st, id)
    ELSE MemoryStore_DeleteRecord(st, id)
Store_RestoreRecord(st, id) ==
    IF kind = "file" THEN FileStore_RestoreRecord(st, id)
    ELSE MemoryStore_RestoreRecord(st, id)
Store_PurgeRecord(st, id) ==
    IF kind = "file" THEN FileStore_PurgeRecord(st, id)
    ELSE MemoryStore_PurgeRecord(st, id)
Store_LoadRecords(st, records_, t) ==
    IF kind = "file" THEN FileStore_LoadRecords(st, records_, t)
    ELSE MemoryStore_LoadRecords(st, records_, t)

\* PgStore callers may also pass a string that is no UUID
PgInputEntries ==
    InputEntries \cup
    {Entry(ID_X, Content1, ca, ca) : ca \in {0, 1}}
PgBatchEntries == BatchEntries \cup {Entry(ID_X, Content2, 0, 0)}
PgBatches ==
    UNION {[1..n -> PgBatchEntries] : n \in 0..MaxBatch}

\* the stores as constructed and opened on an empty file / an empty table
Init ==
    /\ kind \in {"file", "memory", "pg"}
    /\ records = EmptyMap
    /\ deletedRecs = EmptyMap
    /\ isDirty = FALSE
    /\ rows = EmptyMap
    /\ now = 1
    /\ last = [op |-> "none", id |-> EmptyStr, ok |-> TRUE]
    /\ query = NoQuery
    /\ result = NoResult

SetStore(res, op, id) ==
    /\ records' = res.st.records
    /\ deletedRecs' = res.st.deletedRecs
    /\ isDirty' = res.st.isDirty
    /\ last' = [op |-> op, id |-> id, ok |-> ~res.err]
    /\ UNCHANGED <<kind, rows, now, query, result>>

SetTable(res, op, id) ==
    /\ rows' = res.tbl
    /\ last' = [op |-> op, id |-> id, ok |-> ~res.err]
    /\ UNCHANGED <<kind, records, deletedRecs, isDirty, now, query, result>>

AddRecord ==
    \/ /\ InProcess
       /\ \E record \in InputEntries :
            SetStore(Store_AddRecord(St, record, now),
                     "AddRecord", record.ID)
    \/ /\ kind = "pg"
       /\ \E record \in PgInputEntries, acct \in Accounts, dbErr \in BOOLEAN :
            SetTable(PgStore_AddRecord(rows, acct, record, now, dbErr),
                     "AddRecord", record.ID)

GetRecord ==
    /\ \E id \in InputIDs :
       \E acct \in Accounts, dbErr \in BOOLEAN :
         LET res == IF InProcess THEN Store_GetRecord(St, id)
                    ELSE PgStore_GetRecord(rows, acct, id, dbErr)
         IN last' = [op |-> "GetRecord", id |-> id, ok |-> ~res.err]
    /\ UNCHANGED <<kind, records, deletedRecs, isDirty, rows, now, query,
                   result>>

UpdateRecord ==
    \/ /\ InProcess
       /\ \E record \in InputEntries :
            SetStore(Store_UpdateRecord(St, record, now),
                     "UpdateRecord", record.ID)
    \/ /\ kind = "pg"
       /\ \E record \in PgInputEntries, acct \in Accounts, dbErr \in BOOLEAN :
            SetTable(PgStore_UpdateRecord(rows, acct, record, now, dbErr),
                     "UpdateRecord", record.ID)

DeleteRecord ==
    \/ /\ InProcess
       /\ \E id \in InputIDs :
            SetStore(Store_DeleteRecord(St, id),
                     "DeleteRecord", id)
    \/ /\ kind = "pg"
       /\ \E id \in InputIDs \cup {ID_X}, acct \in Accounts, dbErr \in BOOLEAN :
            SetTable(PgStore_DeleteRecord(rows, acct, id, now, dbErr),
                     "DeleteRecord", id)

RestoreRecord ==
    \/ /\ InProcess
       /\ \E id \in InputIDs :
            SetStore(Store_RestoreRecord(St, id),
                     "RestoreRecord", id)
    \/ /\ kind = "pg"
       /\ \E id \in InputIDs \cup {ID_X}, acct \in Accounts, dbErr \in BOOLEAN :
            SetTable(PgStore_RestoreRecord(rows, acct, id, now, dbErr),
                     "RestoreRecord", id)

PurgeRecord ==
    \/ /\ InProcess
       /\ \E id \in InputIDs :
            SetStore(Store_PurgeRecord(St, id),
                     "PurgeRecord", id)
    \/ /\ kind = "pg"
       /\ \E id \in InputIDs \cup {ID_X}, acct \in Accounts, dbErr \in BOOLEAN :
            SetTable(PgStore_PurgeRecord(rows, acct, id, dbErr),
                     "PurgeRecord", id)

LoadRecords ==
    \/ /\ InProcess
       /\ \E batch \in Batches :
            SetStore(Store_LoadRecords(St, batch, now),
                     "LoadRecords", EmptyStr)
    \/ /\ kind = "pg"
       /\ \E batch \in PgBatches, acct \in Accounts :
          \E failAt \in 0..(Len(batch) + 1) :
            SetTable(PgStore_LoadRecords(rows, acct, batch, now, failAt),
                     "LoadRecords", EmptyStr)

\* the clock advances between calls
Tick ==
    /\ now < MaxTime
    /\ now' = now + 1
    /\ UNCHANGED <<kind, records, deletedRecs, isDirty, rows, last, query,
                   result>>

Next ==
    \/ AddRecord
    \/ GetRecord
    \/ UpdateRecord
    \/ DeleteRecord
    \/ RestoreRecord
    \/ PurgeRecord
    \/ LoadRecords
    \/ Tick

Spec == Init /\ [][Next]_vars


(* ------------------------ filter evaluation spec ----------------------- *)
\* a caller picks a record and a filter group; both evaluators are run on it
InitFilter ==
    /\ kind = "memory"
    /\ records = EmptyMap
    /\ deletedRecs = EmptyMap
    /\ isDirty = FALSE
    /\ rows = EmptyMap
    /\ now = 1
    /\ last = [op |-> "none", id |-> EmptyStr, ok |-> TRUE]
    /\ query \in [rec : FilterRecords, group : SampleGroups]
    /\ result = NoResult

Evaluate ==
    /\ ~result.done
    /\ result' = [done |-> TRUE,
                  file |-> FileStore_matchesFilter(query.rec, query.group),
                  memory |-> MemoryStore_matchesFilter(query.rec, query.group)]
    /\ UNCHANGED <<kind, records, deletedRecs, isDirty, rows, now, last, query>>

NextFilter == Evaluate

SpecFilter == InitFilter /\ [][NextFilter]_vars

(* --------------- searching a store (SpecSearch) ------------------------ *)
Store_SearchRecords(st, filter) ==
    IF kind = "file" THEN FileStore_SearchRecords(st, filter)
    ELSE MemoryStore_SearchRecords(st, filter)
Store_matchesFilter(record, group) ==
    IF kind = "file" THEN FileStore_matchesFilter(record, group)
    ELSE MemoryStore_matchesFilter(record, group)

\* a Filter with nothing but its root group set
DefaultFilter(group) == Filter(group, 0, 0, "", "", FALSE, FALSE)

\* root groups of the searches: no children, one condition under each
\* operator, two conditions, a nested group with a condition, nested
\* groups without children, and a condition on a field Entry does not have
SearchGroups ==
    {Group(op, <<>>, <<>>) : op \in {"", "AND"}}
    \cup {Group(op, <<c>>, <<>>) :
            op \in FilterOps, c \in {Cond("Category", "=", StrVal(CategoryFact))}}
    \cup {Group("OR", <<Cond("Importance", ">", IntVal(25)),
                       Cond("Tags", "CONTAINS", StrVal(TagU))>>, <<>>),
          Group("AND", <<>>, <<Group("", <<Cond("Importance", ">",
                                                IntVal(25))>>, <<>>)>>),
          Group("NOT", <<>>, <<Group("NOT", <<>>, <<>>)>>),
          Group("AND", <<Cond("Bogus", "=", StrVal(TagB))>>, <<>>)}
    \cup {Group("AND", <<Cond("Importance", ">", IntVal(25))>>,
                 <<Group(op, <<>>, <<>>)>>) : op \in {"", "OR"}}

\* the filters handed to SearchRecords: every root group with the other
\* fields left at their zero values; the partition flags; orderings;
\* limits and offsets, negative ones included
SearchFilters ==
    {DefaultFilter(g) : g \in SearchGroups}
    \cup {Filter(EmptyGroup, 0, 0, "", "", inc, only) :
            inc \in BOOLEAN, only \in BOOLEAN}
    \cup {Filter(EmptyGroup, 0, 0, by, dir, FALSE, FALSE) :
            by \in {"Importance", "Category", "CreatedAt", "Bogus"},
            dir \in {"ASC", "DESC", ""}}
    \cup {Filter(EmptyGroup, lim, off, "ID", "ASC", FALSE, FALSE) :
            lim \in {-1, 0, 1, 2}, off \in {-1, 0, 1, 3}}

NoSearch == DefaultFilter(EmptyGroup)
\* the records of FilterRecords as callers hand them to AddRecord, with
\* creation times of their own: one earlier, two equal
SearchEntries ==
    {[r EXCEPT !.CreatedAt = IF r.ID = ID_B THEN 1 ELSE 2] :
        r \in FilterRecords}
NoSearchResult == [done |-> FALSE, recs |-> <<>>, err |-> FALSE,
                   panic |-> FALSE]

InitSearch ==
    /\ kind \in {"file", "memory"}
    /\ records = EmptyMap
    /\ deletedRecs = EmptyMap
    /\ isDirty = FALSE
    /\ rows = EmptyMap
    /\ now = 1
    /\ last = [op |-> "none", id |-> EmptyStr, ok |-> TRUE]
    /\ query = NoSearch
    /\ result = NoSearchResult

\* a lifecycle call between searches; the last search is forgotten
SetSearchedStore(res, op, id) ==
    /\ records' = res.st.records
    /\ deletedRecs' = res.st.deletedRecs
    /\ isDirty' = res.st.isDirty
    /\ last' = [op |-> op, id |-> id, ok |-> ~res.err]
    /\ query' = NoSearch
    /\ result' = NoSearchResult
    /\ UNCHANGED <<kind, rows, now>>

SearchAddRecord ==
    /\ InProcess
    /\ \E record \in SearchEntries :
         SetSearchedStore(Store_AddRecord(St, record, now),
                          "AddRecord", record.ID)

SearchDeleteRecord ==
    /\ InProcess
    /\ \E record \in FilterRecords :
         SetSearchedStore(Store_DeleteRecord(St, record.ID),
                          "DeleteRecord", record.ID)

SearchRestoreRecord ==
    /\ InProcess
    /\ \E record \in FilterRecords :
         SetSearchedStore(Store_RestoreRecord(St, record.ID),
                          "RestoreRecord", record.ID)

SearchRecords ==
    \E filter \in SearchFilters :
      \E res \in Store_SearchRecords(St, filter) :
        /\ query' = filter
        /\ result' = [done |-> TRUE, recs |-> res.recs, err |-> res.err,
                      panic |-> res.panic]
        /\ last' = [op |-> "SearchRecords", id |-> EmptyStr,
                    ok |-> ~res.err /\ ~res.panic]
        /\ UNCHANGED <<kind, records, deletedRecs, isDirty, rows, now>>

NextSearch ==
    \/ SearchAddRecord
    \/ SearchDeleteRecord
    \/ SearchRestoreRecord
    \/ SearchRecords

SpecSearch == InitSearch /\ [][NextSearch]_vars

(* -------------- evaluating one condition (SpecCond) -------------------- *)
\* "k", "j": metadata keys; "v", "w": metadata values
MetaK == <<107>>
MetaJ == <<106>>
MetaV == <<118>>
MetaW == <<119>>
\* "T": a prefix of both sample contents; "1T": their bytes in another order
ContentT == <<84>>
Content1T == <<49, 84>>
\* "x", "[b]", "[u b]": a tag no record has, and the printed form of the
\* tag lists of the sample records
TagX == <<120>>
TagsBText == <<91, 98, 93>>
TagsUBText == <<91, 117, 32, 98, 93>>

CondEntry(id, content, importance, created, tags, subjectIDs, metadata) ==
    [Entry(id, content, created, created) EXCEPT !.Importance = importance,
                                                 !.Tags = tags,
                                                 !.SubjectIDs = subjectIDs,
                                                 !.Metadata = metadata]
\* the records single conditions are evaluated on; the third has an
\* Importance of 2^53 + 1 and no content, tags or metadata
CondRecords ==
    {CondEntry(ID_A, Content1, 5, 1, <<TagB>>, <<TagU>>,
               [k \in {MetaK} |-> MetaV]),
     CondEntry(ID_B, Content2, 100, 2, <<TagU, TagB>>, <<>>,
               [k \in {MetaK, MetaJ} |-> IF k = MetaK THEN MetaW ELSE MetaV]),
     CondEntry(ID_X, EmptyStr, Wide + 1, 5, <<>>, <<TagB, TagB>>, EmptyMap)}

\* the operators a condition may carry
CondOps == {"=", "!=", ">", "<", ">=", "<=", "CONTAINS"}

CondFields ==
    {"Tags", "SubjectIDs", "Content", "CreatedAt", "UpdatedAt", "ExpiresAt",
     "Metadata", "Importance"}

\* the values conditions carry: strings, integers (up to 2^53 + 2), byte
\* slices, times (in UTC and in a zone 8 hours east of the records'), and
\* maps of both map types
CondValues ==
    <<StrVal(TagB), StrVal(TagX), StrVal(TagsBText), StrVal(TagsUBText),
      StrVal(Content1), StrVal(ContentT), StrVal(Content1T), StrVal(EmptyStr),
      StrVal(MetaK),
      IntVal(5), IntVal(25), IntVal(100), IntVal(Wide), IntVal(Wide + 2),
      BytesVal(Content1), BytesVal(ContentT), BytesVal(Content1T),
      BytesVal(EmptyStr),
      TimeVal(2, 0), TimeVal(2, 8), TimeVal(3, 8), TimeVal(0, 0),
      StrMapVal([k \in {MetaK} |-> MetaV]),
      StrMapVal([k \in {MetaK, MetaJ} |-> MetaV]),
      StrMapVal([k \in {MetaJ} |-> MetaV]),
      IfMapVal([k \in {MetaK} |-> StrVal(MetaV)])>>

\* the pairs of field and value type for which the evaluators are modelled
Applicable(field, value) ==
    \/ field = "Metadata" /\ value.t \in {"strmap", "ifmap", "string"}
    \/ field \in {"CreatedAt", "UpdatedAt", "ExpiresAt"} /\ value.t = "time"
    \/ field \in {"Tags", "SubjectIDs"} /\ value.t \in {"string", "int"}
    \/ field = "Content" /\ value.t \in {"string", "bytes"}
    \/ field = "Importance" /\ value.t = "int"

InitCond ==
    /\ kind = "file"
    /\ records = EmptyMap
    /\ deletedRecs = EmptyMap
    /\ isDirty = FALSE
    /\ rows = EmptyMap
    /\ now = 1
    /\ last = [op |-> "none", id |-> EmptyStr, ok |-> TRUE]
    /\ \E r \in CondRecords, field \in CondFields, op \in CondOps :
         \E k \in 1..Len(CondValues) :
           /\ Applicable(field, CondValues[k])
           /\ query = [rec |-> r, cond |-> Cond(field, op, CondValues[k])]
    /\ result = NoResult

\* both stores' matchesCondition, run on the record and the condition
EvaluateCondition ==
    /\ ~result.done
    /\ result' = [done |-> TRUE,
                  file |-> FileStore_matchesCondition(query.rec, query.cond),
                  memory |-> MemoryStore_matchesCondition(query.rec,
                                                          query.cond)]
    /\ UNCHANGED <<kind, records, deletedRecs, isDirty, rows, now, last, query>>

NextCond == EvaluateCondition

SpecCond == InitCond /\ [][NextCond]_vars

(* ======================= record lifecycle claims ======================= *)
\* a call that returned an error and left the in-process store as it was
Rejected(res) == res.err /\ res.st = St
\* a PgStore call that returned an error and left the table as it was
PgRejected(res) == res.err /\ res.tbl = rows

\* C1: in MemoryStore and FileStore no record ID is ever in the live map
\* and in the deleted map at once.
C1_PartitionsDisjoint ==
    InProcess => DOMAIN records \cap DOMAIN deletedRecs = {}

\* C2: after a successful PurgeRecord(id), id is in neither partition, and
\* GetRecord, UpdateRecord, DeleteRecord, RestoreRecord and PurgeRecord on id
\* all return an error.
C2_PurgedIsGone ==
    InProcess =>
      \A id \in IDs :
        LET p == Store_PurgeRecord(St, id) IN
        ~p.err =>
          /\ id \notin DOMAIN p.st.records \cup DOMAIN p.st.deletedRecs
          /\ Store_GetRecord(p.st, id).err
          /\ \A r \in InputEntries :
               r.ID = id => Store_UpdateRecord(p.st, r, now).err
          /\ Store_DeleteRecord(p.st, id).err
          /\ Store_RestoreRecord(p.st, id).err
          /\ Store_PurgeRecord(p.st, id).err

\* C3: AddRecord returns an error and leaves the store unchanged when the
\* record's ID is empty or already exists, live or soft-deleted.
C3_AddRejectsEmptyAndDuplicate ==
    InProcess =>
      \A r \in InputEntries :
        (r.ID = EmptyStr \/ r.ID \in DOMAIN records \cup DOMAIN deletedRecs)
          => Rejected(Store_AddRecord(St, r, now))

\* C4: for a live record, after DeleteRecord GetRecord returns an error;
\* after a following RestoreRecord GetRecord succeeds and returns the record
\* with the content it had before the delete.
C4_DeleteThenRestore ==
    /\ InProcess =>
         \A id \in DOMAIN records :
           LET d == Store_DeleteRecord(St, id)
               u == Store_RestoreRecord(d.st, id)
               g == Store_GetRecord(u.st, id)
           IN /\ ~d.err
              /\ Store_GetRecord(d.st, id).err
              /\ ~u.err
              /\ ~g.err
              /\ g.rec = records[id]
    /\ kind = "pg" =>
         \A k \in DOMAIN rows, t1 \in now..MaxTime :
           \A t2 \in t1..MaxTime :
             ~rows[k].is_deleted =>
               LET d == PgStore_DeleteRecord(rows, k[1], k[2], t1, FALSE)
                   u == PgStore_RestoreRecord(d.tbl, k[1], k[2], t2, FALSE)
                   g == PgStore_GetRecord(u.tbl, k[1], k[2], FALSE)
               IN /\ ~d.err
                  /\ PgStore_GetRecord(d.tbl, k[1], k[2], FALSE).err
                  /\ ~u.err
                  /\ ~g.err
                  /\ g.rec.ID = rows[k].entry.ID
                  /\ g.rec.Content = rows[k].entry.Content
                  /\ g.rec.CreatedAt = rows[k].entry.CreatedAt

\* C4 witness: a record that was soft-deleted and then restored is live
C4_Witness ==
    /\ last.op = "RestoreRecord"
    /\ last.ok
    /\ InProcess
    /\ last.id \in DOMAIN records
    /\ records[last.id].Content = Content2

\* what AddRecord is to store for record r at time t
WithTimestamps(r, t) ==
    [r EXCEPT !.CreatedAt = IF r.CreatedAt = 0 THEN t ELSE r.CreatedAt,
              !.UpdatedAt = IF r.UpdatedAt = 0 THEN t ELSE r.UpdatedAt]

C6_NotFoundChangesNothing ==
    /\ InProcess =>
         /\ \A r \in InputEntries :
              r.ID \notin DOMAIN records =>
                Rejected(Store_UpdateRecord(St, r, now))
         /\ \A id \in InputIDs :
              /\ id \notin DOMAIN records =>
                   Rejected(Store_DeleteRecord(St, id))
              /\ id \notin DOMAIN deletedRecs =>
                   Rejected(Store_RestoreRecord(St, id))
              /\ id \notin DOMAIN records \cup DOMAIN deletedRecs =>
                   Rejected(Store_PurgeRecord(St, id))
    /\ kind = "pg" =>
         \A acct \in Accounts, dbErr \in BOOLEAN :
           /\ \A r \in PgInputEntries :
                ~(<<acct, r.ID>> \in DOMAIN rows
                    /\ ~rows[<<acct, r.ID>>].is_deleted) =>
                  PgRejected(PgStore_UpdateRecord(rows, acct, r, now, dbErr))
           /\ \A id \in InputIDs \cup {ID_X} :
                LET k == <<acct, id>> IN
                /\ ~(k \in DOMAIN rows /\ ~rows[k].is_deleted) =>
                     PgRejected(PgStore_DeleteRecord(rows, acct, id, now, dbErr))
                /\ ~(k \in DOMAIN rows /\ rows[k].is_deleted) =>
                     PgRejected(PgStore_RestoreRecord(rows, acct, id, now, dbErr))
                /\ k \notin DOMAIN rows =>
                     PgRejected(PgStore_PurgeRecord(rows, acct, id, dbErr))

\* C6 witness: DeleteRecord has just failed on a record that is already
\* soft-deleted, in a store holding another live record
C6_Witness ==
    /\ last.op = "DeleteRecord"
    /\ ~last.ok
    /\ InProcess
    /\ last.id \in DOMAIN deletedRecs
    /\ last.id \notin DOMAIN records
    /\ DOMAIN records # {}

\* a batch with an empty ID or with two records sharing an ID
BadBatch(b) ==
    \/ \E i \in 1..Len(b) : b[i].ID = EmptyStr
    \/ \E i, j \in 1..Len(b) : i # j /\ b[i].ID = b[j].ID

\* C7: LoadRecords with an empty ID or a repeated ID in the batch, or (SQL
\* backend) with a failing per-record step, returns an error and leaves the
\* stored state exactly as it was.
C7_LoadAllOrNothing ==
    /\ InProcess =>
         \A b \in Batches :
           BadBatch(b) => Rejected(Store_LoadRecords(St, b, now))
    /\ kind = "pg" =>
         \A b \in PgBatches, acct \in Accounts :
           /\ BadBatch(b) =>
                \A failAt \in 0..(Len(b) + 1) :
                  PgRejected(PgStore_LoadRecords(rows, acct, b, now, failAt))
           /\ Len(b) > 0 =>
                \A failAt \in 1..(Len(b) + 1) :
                  PgRejected(PgStore_LoadRecords(rows, acct, b, now, failAt))

\* C7 witness: LoadRecords has just failed on a store that holds records
C7_Witness ==
    /\ last.op = "LoadRecords"
    /\ ~last.ok
    /\ \/ InProcess /\ DOMAIN records # {}
       \/ kind = "pg" /\ DOMAIN rows # {}

\* C8: loading the same batch a second time leaves the stored state
\* identical to the state after the first load.
C8_LoadIdempotent ==
    InProcess =>
      \A b \in Batches, t2 \in now..MaxTime :
        LET l1 == Store_LoadRecords(St, b, now)
            l2 == Store_LoadRecords(l1.st, b, t2)
        IN ~l1.err => (~l2.err /\ l2.st = l1.st)

\* C9: every successful UpdateRecord, DeleteRecord, RestoreRecord and
\* updating LoadRecords sets the stored record's UpdatedAt to the time of
\* the call, whatever UpdatedAt the caller passed.
C9_MutationRefreshesUpdatedAt ==
    InProcess =>
      /\ \A r \in InputEntries :
           LET u == Store_UpdateRecord(St, r, now) IN
           ~u.err => u.st.records[r.ID].UpdatedAt = now
      /\ \A id \in IDs :
           LET d == Store_DeleteRecord(St, id) IN
           ~d.err => d.st.deletedRecs[id].UpdatedAt = now
      /\ \A id \in IDs :
           LET u == Store_RestoreRecord(St, id) IN
           ~u.err => u.st.records[id].UpdatedAt = now
      /\ \A b \in Batches :
           LET l == Store_LoadRecords(St, b, now) IN
           ~l.err =>
             \A i \in 1..Len(b) :
               b[i].ID \in DOMAIN records =>
                 l.st.records[b[i].ID].UpdatedAt = now


(* ======================= filter evaluation claims ====================== *)
\* a filter group and every group nested in it, to any depth
RECURSIVE AllGroups(_)
AllGroups(g) ==
    {g} \cup UNION {AllGroups(g.Groups[i]) : i \in 1..Len(g.Groups)}

\* every condition and every nested group of g matches r
FileEveryChild(r, g) ==
    /\ \A i \in 1..Len(g.Conditions) :
         FileStore_matchesCondition(r, g.Conditions[i])
    /\ \A i \in 1..Len(g.Groups) : FileStore_matchesFilter(r, g.Groups[i])
MemoryEveryChild(r, g) ==
    /\ \A i \in 1..Len(g.Conditions) :
         MemoryStore_matchesCondition(r, g.Conditions[i])
    /\ \A i \in 1..Len(g.Groups) : MemoryStore_matchesFilter(r, g.Groups[i])

\* at least one condition or nested group of g matches r
FileSomeChild(r, g) ==
    \/ \E i \in 1..Len(g.Conditions) :
         FileStore_matchesCondition(r, g.Conditions[i])
    \/ \E i \in 1..Len(g.Groups) : FileStore_matchesFilter(r, g.Groups[i])
MemorySomeChild(r, g) ==
    \/ \E i \in 1..Len(g.Conditions) :
         MemoryStore_matchesCondition(r, g.Conditions[i])
    \/ \E i \in 1..Len(g.Groups) : MemoryStore_matchesFilter(r, g.Groups[i])

HasChildren(g) == Len(g.Conditions) > 0 \/ Len(g.Groups) > 0

\* C10 as stated: at every nesting depth an AND group matches iff every one
\* of its conditions and nested groups matches, and an OR group matches iff
\* at least one of them matches, in MemoryStore and FileStore.
C10_AndOrEveryGroup ==
    result.done =>
      \A g \in AllGroups(query.group) :
        /\ g.Operator = "AND" =>
             /\ FileStore_matchesFilter(query.rec, g)
                  = FileEveryChild(query.rec, g)
             /\ MemoryStore_matchesFilter(query.rec, g)
                  = MemoryEveryChild(query.rec, g)
        /\ g.Operator = "OR" =>
             /\ FileStore_matchesFilter(query.rec, g)
                  = FileSomeChild(query.rec, g)
             /\ MemoryStore_matchesFilter(query.rec, g)
                  = MemorySomeChild(query.rec, g)

\* C10 amended: the same, for OR groups that have at least one condition or
\* nested group (a group without children matches every record).
C10_AndOrGroupsWithChildren ==
    result.done =>
      /\ query.group.Operator = "AND" =>
           /\ result.file = FileEveryChild(query.rec, query.group)
           /\ result.memory = MemoryEveryChild(query.rec, query.group)
      /\ (query.group.Operator = "OR" /\ HasChildren(query.group)) =>
           /\ result.file = FileSomeChild(query.rec, query.group)
           /\ result.memory = MemorySomeChild(query.rec, query.group)
      /\ \A g \in AllGroups(query.group) :
           /\ g.Operator = "AND" =>
                /\ FileStore_matchesFilter(query.rec, g)
                     = FileEveryChild(query.rec, g)
                /\ MemoryStore_matchesFilter(query.rec, g)
                     = MemoryEveryChild(query.rec, g)
           /\ (g.Operator = "OR" /\ HasChildren(g)) =>
                /\ FileStore_matchesFilter(query.rec, g)
                     = FileSomeChild(query.rec, g)
                /\ MemoryStore_matchesFilter(query.rec, g)
                     = MemorySomeChild(query.rec, g)

\* C10 witness: an AND group over an OR group over an AND group of two
\* conditions was evaluated; the innermost group fails, the OR group matches
\* through its own condition, and the whole filter matches
C10_Witness ==
    /\ result.done
    /\ query.group \in TopGroups
    /\ query.group.Operator = "AND"
    /\ query.group.Groups[1].Operator = "OR"
    /\ Len(query.group.Groups[1].Conditions) = 1
    /\ query.group.Groups[1].Groups[1].Operator = "AND"
    /\ Len(query.group.Groups[1].Groups[1].Conditions) = 2
    /\ ~FileStore_matchesFilter(query.rec, query.group.Groups[1].Groups[1])
    /\ result.file
    /\ result.memory

NumChildren(g) == Len(g.Conditions) + Len(g.Groups)

\* C11: in MemoryStore and FileStore a NOT group with exactly one child
\* matches a record iff that child does not match, and a NOT group with
\* several children matches iff none of its children matches.
C11_NotGroups ==
    result.done =>
      \A g \in AllGroups(query.group) :
        g.Operator = "NOT" =>
          /\ NumChildren(g) = 1 =>
               /\ FileStore_matchesFilter(query.rec, g)
                    = ~FileEveryChild(query.rec, g)
               /\ MemoryStore_matchesFilter(query.rec, g)
                    = ~MemoryEveryChild(query.rec, g)
          /\ NumChildren(g) > 1 =>
               /\ FileStore_matchesFilter(query.rec, g)
                    = ~FileSomeChild(query.rec, g)
               /\ MemoryStore_matchesFilter(query.rec, g)
                    = ~MemorySomeChild(query.rec, g)

\* C11 witness: a NOT group of two conditions, of which exactly one matches,
\* was evaluated and rejected the record in both evaluators
C11_Witness ==
    /\ result.done
    /\ query.group.Operator = "NOT"
    /\ Len(query.group.Conditions) = 2
    /\ Len(query.group.Groups) = 0
    /\ FileStore_matchesCondition(query.rec, query.group.Conditions[1])
    /\ ~FileStore_matchesCondition(query.rec, query.group.Conditions[2])
    /\ ~result.file
    /\ ~result.memory

(* ============================ search claims ============================ *)
\* the last search's outcome, as SearchRecords returned it
LastOutcome == [recs |-> result.recs, err |-> result.err,
                panic |-> result.panic]
\* the records in a returned slice
RecordSet(recs) == {recs[i] : i \in 1..Len(recs)}
\* the record sets of a set of outcomes
RecordSets(outcomes) == {RecordSet(o.recs) : o \in outcomes}
LiveRecords == {records[k] : k \in DOMAIN records}
StoredRecords == LiveRecords \cup {deletedRecs[k] : k \in DOMAIN deletedRecs}
WithOperator(g, op) == [g EXCEPT !.Operator = op]
\* the groups nested in g, to any depth
NestedGroups(g) == UNION {AllGroups(g.Groups[i]) : i \in 1..Len(g.Groups)}

\* C12 as stated: a group whose Operator is empty and that has at least one
\* condition or subgroup is evaluated exactly like the same group with
\* Operator AND, as the root group of a Filter and as a nested group, in
\* MemoryStore and FileStore.
C12_EmptyOperatorIsAnd ==
    result.done =>
      /\ (query.RootGroup.Operator = "" /\ HasChildren(query.RootGroup)) =>
           LastOutcome \in
             Store_SearchRecords(St, [query EXCEPT !.RootGroup.Operator = "AND"])
      /\ \A g \in NestedGroups(query.RootGroup) :
           (g.Operator = "" /\ HasChildren(g)) =>
             \A r \in StoredRecords :
               Store_matchesFilter(r, g)
                 = Store_matchesFilter(r, WithOperator(g, "AND"))

\* C13: SearchRecords with a root group without children and default flags
\* returns exactly the live records, each once and without an error, and a
\* group without children nested anywhere in a filter tree matches every
\* record.
C13_EmptyGroupMatchesAll ==
    result.done =>
      /\ (~HasChildren(query.RootGroup)
            /\ query = DefaultFilter(query.RootGroup)) =>
           /\ ~result.err
           /\ ~result.panic
           /\ RecordSet(result.recs) = LiveRecords
           /\ Len(result.recs) = Cardinality(DOMAIN records)
      /\ \A g \in AllGroups(query.RootGroup) :
           ~HasChildren(g) =>
             \A r \in FilterRecords : Store_matchesFilter(r, g)

\* C13 witness: a FileStore holding a live and a soft-deleted record was
\* searched with a root group without children and default flags, and the
\* search returned the live record alone
C13_Witness ==
    /\ result.done
    /\ kind = "file"
    /\ Cardinality(DOMAIN records) = 1
    /\ DOMAIN deletedRecs \ DOMAIN records # {}
    /\ ~HasChildren(query.RootGroup)
    /\ query = DefaultFilter(query.RootGroup)
    /\ RecordSet(result.recs) = LiveRecords

\* the conditions C14 is checked for
SingleConds ==
    CondSet \cup {Cond("Importance", "<", IntVal(50)),
                  Cond("Tags", "=", StrVal(TagB)),
                  Cond("Bogus", "=", StrVal(TagB)),
                  Cond("ID", "!=", StrVal(ID_A))}

\* C14: in every store state and for every single condition C, SearchRecords
\* with root group {AND, [C]} returns the same set of records as
\* SearchRecords with root group {OR, [C]}.
C14_AndOrOfOneCondition ==
    \A c \in SingleConds :
      RecordSets(Store_SearchRecords(St,
                    DefaultFilter(Group("AND", <<c>>, <<>>))))
        = RecordSets(Store_SearchRecords(St,
                    DefaultFilter(Group("OR", <<c>>, <<>>))))

\* C14 witness: a search with root group {OR, [C]} returned some of the live
\* records and left out others
C14_Witness ==
    /\ result.done
    /\ query.RootGroup.Operator = "OR"
    /\ Len(query.RootGroup.Conditions) = 1
    /\ Len(query.RootGroup.Groups) = 0
    /\ RecordSet(result.recs) # {}
    /\ RecordSet(result.recs) # LiveRecords
    /\ RecordSet(result.recs)
         \in RecordSets(Store_SearchRecords(St,
                 [query EXCEPT !.RootGroup.Operator = "AND"]))

\* conditions on fields that Entry does not have (field names are matched
\* with their case)
UnknownFields == {"Bogus", "importance", ""}
\* condition values of every type
UnknownFieldValues ==
    <<StrVal(TagB), IntVal(5), BytesVal(Content1), TimeVal(1, 0),
      StrMapVal(EmptyMap)>>
HasUnknownField(g) ==
    \E i \in 1..Len(g.Conditions) : g.Conditions[i].Field \notin EntryFieldNames

\* C15: in MemoryStore and FileStore a condition naming a field that Entry
\* does not have is false for every record, and a SearchRecords whose filter
\* holds such a condition returns without an error.
C15_UnknownFieldIsFalse ==
    /\ \A f \in UnknownFields, op \in CondOps :
         \A k \in 1..Len(UnknownFieldValues), r \in FilterRecords :
           /\ ~FileStore_matchesCondition(
                 r, Cond(f, op, UnknownFieldValues[k]))
           /\ ~MemoryStore_matchesCondition(
                 r, Cond(f, op, UnknownFieldValues[k]))
    /\ (result.done /\ HasUnknownField(query.RootGroup)) =>
         /\ ~result.err
         /\ ~result.panic
         /\ \A i \in 1..Len(query.RootGroup.Conditions) :
              query.RootGroup.Conditions[i].Field \notin EntryFieldNames =>
                \A r \in StoredRecords :
                  /\ ~FileStore_matchesCondition(
                        r, query.RootGroup.Conditions[i])
                  /\ ~MemoryStore_matchesCondition(
                        r, query.RootGroup.Conditions[i])

\* C15 witness: a store with live records was searched for a field Entry
\* does not have, and the search returned no record and no error
C15_Witness ==
    /\ result.done
    /\ HasUnknownField(query.RootGroup)
    /\ query.RootGroup.Operator = "AND"
    /\ Cardinality(DOMAIN records) >= 2
    /\ result.recs = <<>>
    /\ ~result.err
    /\ ~result.panic

(* ========================== condition claims =========================== *)
\* the list field of a record that a condition names
ListField(rec, field) == IF field = "Tags" THEN rec.Tags ELSE rec.SubjectIDs

\* C16 as stated: a condition on Tags or SubjectIDs matches only with the
\* operator CONTAINS, and then iff some element of the list equals the
\* condition value after string coercion; with any other operator it
\* matches no record, in MemoryStore and FileStore.
C16_ListFieldsOnlyContain ==
    (result.done /\ query.cond.Field \in {"Tags", "SubjectIDs"}) =>
      LET list == ListField(query.rec, query.cond.Field)
          text == Sprintf_v(query.cond.Value)
          expected == /\ query.cond.Operator = "CONTAINS"
                      /\ \E i \in 1..Len(list) : list[i] = text
      IN /\ result.file = expected
         /\ result.memory = expected

\* sub occurs in str as a contiguous run of bytes
OccursIn(sub, str) ==
    \E i \in 0..(Len(str) - Len(sub)) :
        \A j \in 1..Len(sub) : str[i + j] = sub[j]

\* C17 as stated: a condition on Content whose value v is a byte sequence
\* or a string matches with = iff the content equals v byte for byte, with
\* != iff it differs from v, and with CONTAINS iff v occurs in the content
\* as a contiguous subsequence, in MemoryStore and FileStore.
C17_ContentComparisons ==
    (/\ result.done
     /\ query.cond.Field = "Content"
     /\ query.cond.Value.t \in {"bytes", "string"}
     /\ query.cond.Operator \in {"=", "!=", "CONTAINS"}) =>
      LET content == query.rec.Content
          v == query.cond.Value.v
          expected == IF query.cond.Operator = "=" THEN content = v
                      ELSE IF query.cond.Operator = "!=" THEN content # v
                      ELSE OccursIn(v, content)
      IN /\ result.file = expected
         /\ result.memory = expected

\* the timestamp of a record that a condition names, as an instant
TimeField(rec, field) ==
    IF field = "CreatedAt" THEN rec.CreatedAt
    ELSE IF field = "UpdatedAt" THEN rec.UpdatedAt
    ELSE rec.ExpiresAt

\* the relation op between two numbers (instants, or integers)
Related(a, op, b) ==
    IF op = "=" THEN a = b
    ELSE IF op = "!=" THEN a # b
    ELSE IF op = ">" THEN a > b
    ELSE IF op = "<" THEN a < b
    ELSE IF op = ">=" THEN a >= b
    ELSE a <= b

\* C18: for a condition on CreatedAt, UpdatedAt or ExpiresAt with a time
\* value t, each of the operators =, !=, >, <, >=, <= matches iff the
\* record's timestamp stands in that chronological relation to t as an
\* instant, whatever the two times look like in print, in MemoryStore and
\* FileStore.
C18_TimeFieldsChronological ==
    (/\ result.done
     /\ query.cond.Field \in {"CreatedAt", "UpdatedAt", "ExpiresAt"}
     /\ query.cond.Value.t = "time"
     /\ query.cond.Operator \in {"=", "!=", ">", "<", ">=", "<="}) =>
      LET expected == Related(TimeField(query.rec, query.cond.Field),
                              query.cond.Operator, query.cond.Value.v)
      IN /\ result.file = expected
         /\ result.memory = expected

\* C18 witness: CreatedAt > t was evaluated for a record created after the
\* instant t, where t is given in a zone in which its printed text sorts
\* after that of the record's timestamp; both stores matched
C18_Witness ==
    /\ result.done
    /\ query.cond.Field = "CreatedAt"
    /\ query.cond.Operator = ">"
    /\ query.cond.Value.t = "time"
    /\ query.rec.CreatedAt > query.cond.Value.v
    /\ StrLess(FormatTime(TimeVal(query.rec.CreatedAt, 0)),
               FormatTime(query.cond.Value))
    /\ result.file
    /\ result.memory

\* every key/value pair of the map m is in metadata
HasEveryPair(metadata, m) ==
    \A k \in DOMAIN m : k \in DOMAIN metadata /\ metadata[k] = m[k]

\* C19 as stated: a Metadata condition whose value is a non-empty
\* string-to-string map M matches with = iff every pair of M is in the
\* record's metadata, and with != iff at least one pair of M is absent or
\* has another value, in MemoryStore and FileStore.
C19_MetadataSubMap ==
    (/\ result.done
     /\ query.cond.Field = "Metadata"
     /\ query.cond.Value.t = "strmap"
     /\ DOMAIN query.cond.Value.v # {}
     /\ query.cond.Operator \in {"=", "!="}) =>
      LET every == HasEveryPair(query.rec.Metadata, query.cond.Value.v)
          expected == IF query.cond.Operator = "=" THEN every ELSE ~every
      IN /\ result.file = expected
         /\ result.memory = expected

\* C20 as stated: for Importance and an integer value v the operators >, <,
\* >=, <= compare the two integers as numbers.
C20_ImportanceNumeric ==
    (/\ result.done
     /\ query.cond.Field = "Importance"
     /\ query.cond.Value.t = "int"
     /\ query.cond.Operator \in {">", "<", ">=", "<="}) =>
      LET expected == Related(query.rec.Importance, query.cond.Operator,
                              query.cond.Value.v)
      IN /\ result.file = expected
         /\ result.memory = expected

(* ------------------ claims: ordering and pagination -------------------- *)
\* the string, integer and time fields of Entry
OrderFields ==
    {"ID", "Category", "Importance", "CreatedAt", "UpdatedAt", "ExpiresAt"}
\* record a does not come after record b when ordered by the field
KeyLeq(a, b, field) ==
    IF field \in {"ID", "Category"} THEN ~StrLess(b[field], a[field])
    ELSE a[field] <= b[field]

\* C21: when OrderBy names a string, integer or time field, the returned
\* list is non-decreasing in that field unless OrderDir is "DESC", and
\* non-increasing when it is "DESC"
C21_OrderedByField ==
    (result.done /\ ~result.panic /\ ~result.err
        /\ query.OrderBy \in OrderFields)
    => \A i, j \in 1..Len(result.recs) :
          i < j =>
            IF query.OrderDir = "DESC"
            THEN KeyLeq(result.recs[j], result.recs[i], query.OrderBy)
            ELSE KeyLeq(result.recs[i], result.recs[j], query.OrderBy)
\* three records come back latest first, two of them created together
C21_Witness ==
    /\ result.done
    /\ query.OrderBy = "CreatedAt"
    /\ query.OrderDir = "DESC"
    /\ Len(result.recs) = 3
    /\ result.recs[1].CreatedAt = result.recs[2].CreatedAt
    /\ result.recs[2].CreatedAt > result.recs[3].CreatedAt

\* the elements of q at the 0-based positions offset .. offset+limit-1, to
\* the end of q when limit <= 0
Page(q, offset, limit) ==
    SubSeq(q, offset + 1,
           IF limit > 0 /\ offset + limit < Len(q) THEN offset + limit
           ELSE Len(q))
\* the filtered and sorted lists the search of the query goes through
\* before pagination
UnpagedLists ==
    {o.recs : o \in Store_SearchRecords(St, [query EXCEPT !.Limit = 0,
                                                          !.Offset = 0])}

\* C22: for Offset >= 0 SearchRecords returns, without error, exactly the
\* elements at positions Offset .. Offset+Limit-1 of the filtered and
\* sorted list (to its end when Limit <= 0); an Offset at or past the
\* number of matches gives an empty page
C22_PageOfSortedList ==
    (result.done /\ query.Offset >= 0)
    => /\ ~result.err
       /\ ~result.panic
       /\ \E q \in UnpagedLists :
             result.recs = Page(q, query.Offset, query.Limit)
       /\ \A q \in UnpagedLists :
             query.Offset >= Len(q) => result.recs = <<>>
\* the second of three live records is the whole page
C22_Witness ==
    /\ result.done
    /\ query.Offset = 1
    /\ query.Limit = 1
    /\ Cardinality(DOMAIN records) = 3
    /\ result.recs = <<records[ID_B]>>

(* ------------------- claims: partitions and stores --------------------- *)
\* a filter that sets nothing but the two partition flags
FlagFilter(inc, only) == Filter(EmptyGroup, 0, 0, "", "", inc, only)
DeletedRecords == {deletedRecs[k] : k \in DOMAIN deletedRecs}
\* every outcome lists each record of the partitions the flags select
\* once, and nothing else
SelectsPartitions(outcomes, inc, only) ==
    \A o \in outcomes :
        /\ ~o.err
        /\ ~o.panic
        /\ RecordSet(o.recs) =
              (IF only THEN {} ELSE LiveRecords)
              \cup (IF inc \/ only THEN DeletedRecords ELSE {})
        /\ Len(o.recs) =
              (IF only THEN 0 ELSE Cardinality(DOMAIN records))
              + (IF inc \/ only THEN Cardinality(DOMAIN deletedRecs) ELSE 0)

\* C23 as stated: with both flags false SearchRecords returns the live
\* records only, with OnlyDeleted the soft-deleted ones only, with
\* IncludeDeleted and not OnlyDeleted the records of both partitions, in
\* FileStore and in every MemoryStore.SearchRecords of the package
C23_FlagsSelectPartitions ==
    \A inc \in BOOLEAN, only \in BOOLEAN :
        /\ kind = "file" =>
              SelectsPartitions(FileStore_SearchRecords(
                                    St, FlagFilter(inc, only)), inc, only)
        /\ kind = "memory" =>
              /\ SelectsPartitions(MemoryStore_SearchRecords(
                                       St, FlagFilter(inc, only)), inc, only)
              /\ SelectsPartitions(MemoryStore2_SearchRecords(
                                       St, FlagFilter(inc, only)), inc, only)

\* what a caller sees of a set of outcomes when it looks at record IDs only
IDOutcomes(outcomes) ==
    {[ids |-> {o.recs[i].ID : i \in 1..Len(o.recs)},
      err |-> o.err, panic |-> o.panic] : o \in outcomes}

\* C24 as stated: on the same stored records and the same Filter,
\* MemoryStore.SearchRecords and FileStore.SearchRecords return the same
\* set of record IDs
C24_SameRecordIDs ==
    result.done
    => IDOutcomes(FileStore_SearchRecords(St, query))
         = IDOutcomes(MemoryStore_SearchRecords(St, query))

(* ------------- concurrent AddRecord calls (SpecConc) ------------------- *)
\* the number of goroutines that call AddRecord at once
MaxCallers == 3
Callers == 1..MaxCallers
\* the record of caller c, timestamps left for the store to set: IDs "a",
\* "b", "c", ..., pairwise distinct and not empty, or, when the callers
\* contend for one ID (query.same), the ID "a" with a payload "1", "2", ...
\* of the caller's own
ConcEntry(c) ==
    IF query.same THEN Entry(ID_A, <<48 + c>>, 0, 0)
    ELSE Entry(<<96 + c>>, Content1, 0, 0)

\* In SpecConc the variable query holds where each caller is and who holds
\* the store's mutex (0: nobody); result holds what each AddRecord returned
\* and the records of the last search.
\* a mutex that lets every caller in
CanLock_Always(mu) == TRUE
\* mu.Lock() goes through when no caller holds the mutex
CanLock(mu) == mu = 0
\* callers between Lock and Unlock other than c
InCritical(c) ==
    {d \in Callers \ {c} : query.pc[d] \in {"locked", "checked", "stored"}}

InitConc ==
    /\ kind \in {"file", "memory"}
    /\ records = EmptyMap
    /\ deletedRecs = EmptyMap
    /\ isDirty = FALSE
    /\ rows = EmptyMap
    /\ now = 1
    /\ last = [op |-> "none", id |-> EmptyStr, ok |-> TRUE]
    /\ query = [pc |-> [c \in Callers |-> "idle"], mu |-> 0, same |-> FALSE]
    /\ result = [ret |-> [c \in Callers |-> "none"], searched |-> FALSE,
                 recs |-> <<>>]

\* the callers all pass the same ID
InitConcSame ==
    /\ kind \in {"file", "memory"}
    /\ records = EmptyMap
    /\ deletedRecs = EmptyMap
    /\ isDirty = FALSE
    /\ rows = EmptyMap
    /\ now = 1
    /\ last = [op |-> "none", id |-> EmptyStr, ok |-> TRUE]
    /\ query = [pc |-> [c \in Callers |-> "idle"], mu |-> 0, same |-> TRUE]
    /\ result = [ret |-> [c \in Callers |-> "none"], searched |-> FALSE,
                 recs |-> <<>>]

\* a goroutine calls AddRecord and waits for the mutex
ConcCall ==
    \E c \in Callers :
        /\ query.pc[c] = "idle"
        /\ query' = [query EXCEPT !.pc[c] = "waiting"]
        /\ UNCHANGED <<kind, records, deletedRecs, isDirty, rows, now, last,
                       result>>

\* mu.Lock()
ConcLock ==
    \E c \in Callers :
        /\ query.pc[c] = "waiting"
        /\ CanLock(query.mu)
        /\ query' = [query EXCEPT !.pc[c] = "locked", !.mu = c]
        /\ UNCHANGED <<kind, records, deletedRecs, isDirty, rows, now, last,
                       result>>

\* the checks of the ID: empty, or already in records; a failed check
\* returns the error through the deferred Unlock
ConcCheck ==
    \E c \in Callers :
        /\ query.pc[c] = "locked"
        /\ IF Store_AddRecord(St, ConcEntry(c), now).err
           THEN /\ query' = [query EXCEPT !.pc[c] = "stored"]
                /\ result' = [result EXCEPT !.ret[c] = "err"]
           ELSE /\ query' = [query EXCEPT !.pc[c] = "checked"]
                /\ UNCHANGED result
        /\ UNCHANGED <<kind, records, deletedRecs, isDirty, rows, now, last>>

\* the timestamps and the write to the map. Two goroutines between Lock and
\* Unlock would be a data race on the map: the write may then be lost.
ConcStore ==
    \E c \in Callers :
        /\ query.pc[c] = "checked"
        /\ \E landed \in IF InCritical(c) = {} THEN {TRUE} ELSE BOOLEAN :
             LET st == IF landed
                       THEN Store_AddRecord(St, ConcEntry(c), now).st
                       ELSE St
             IN /\ records' = st.records
                /\ isDirty' = st.isDirty
        /\ query' = [query EXCEPT !.pc[c] = "stored"]
        /\ result' = [result EXCEPT !.ret[c] = "ok", !.searched = FALSE]
        /\ last' = [op |-> "AddRecord", id |-> ConcEntry(c).ID, ok |-> TRUE]
        /\ UNCHANGED <<kind, deletedRecs, rows, now>>

\* the deferred mu.Unlock() as AddRecord returns
ConcUnlock ==
    \E c \in Callers :
        /\ query.pc[c] = "stored"
        /\ query' = [query EXCEPT !.pc[c] = "done",
                                  !.mu = IF query.mu = c THEN 0 ELSE query.mu]
        /\ UNCHANGED <<kind, records, deletedRecs, isDirty, rows, now, last,
                       result>>

\* SearchRecords with an empty filter, under the read lock
ConcSearch ==
    /\ CanLock(query.mu)
    /\ \E res \in Store_SearchRecords(St, DefaultFilter(EmptyGroup)) :
         result' = [result EXCEPT !.searched = TRUE, !.recs = res.recs]
    /\ UNCHANGED <<kind, records, deletedRecs, isDirty, rows, now, last,
                   query>>

NextConc ==
    \/ ConcCall
    \/ ConcLock
    \/ ConcCheck
    \/ ConcStore
    \/ ConcUnlock
    \/ ConcSearch

SpecConc == InitConc /\ [][NextConc]_vars
SpecConcSame == InitConcSame /\ [][NextConc]_vars

(* ------------------------- claims: concurrency ------------------------- *)
\* C25: after any interleaving of concurrent AddRecord calls with pairwise
\* distinct non-empty IDs on one MemoryStore or FileStore, every call has
\* succeeded and SearchRecords with an empty filter returns exactly the
\* records of the calls: no write is lost
C25_NoLostWrite ==
    ((\A c \in Callers : query.pc[c] = "done") /\ result.searched)
    => /\ \A c \in Callers : result.ret[c] = "ok"
       /\ Len(result.recs) = MaxCallers
       /\ RecordSet(result.recs)
            = {WithTimestamps(ConcEntry(c), now) : c \in Callers}
\* every caller has returned and the search lists one record per caller
C25_Witness ==
    /\ \A c \in Callers : query.pc[c] = "done"
    /\ result.searched
    /\ Len(result.recs) = MaxCallers
    /\ last.id = ConcEntry(1).ID

(* ------------- the store file: Flush, Close, Open (SpecFile) ----------- *)
\* an ID that is not valid UTF-8: the single byte 0xFF
ID_Bad == <<255>>
\* U+FFFD, the replacement character, in UTF-8
RuneError == <<239, 191, 189>>
IsCont(b) == b \in 128..191
\* utf8.DecodeRuneInString: the length of the rune at the head of s, 0 when
\* the head is not a valid encoding
RuneLen(s) ==
    LET b == s[1]
        n == Len(s)
    IN IF b < 128 THEN 1
       ELSE IF b \in 194..223 /\ n >= 2 /\ IsCont(s[2]) THEN 2
       ELSE IF b \in 224..239 /\ n >= 3 /\ IsCont(s[3])
               /\ s[2] \in (IF b = 224 THEN 160..191
                            ELSE IF b = 237 THEN 128..159 ELSE 128..191)
       THEN 3
       ELSE IF b \in 240..244 /\ n >= 4 /\ IsCont(s[3]) /\ IsCont(s[4])
               /\ s[2] \in (IF b = 240 THEN 144..191
                            ELSE IF b = 244 THEN 128..143 ELSE 128..191)
       THEN 4
       ELSE 0

\* a Go string as encoding/json writes it and reads it back: every byte
\* that is not part of valid UTF-8 becomes U+FFFD (escapes are undone by
\* the decoder)
RECURSIVE jsonString(_)
jsonString(s) ==
    IF s = <<>> THEN <<>>
    ELSE IF RuneLen(s) = 0 THEN RuneError \o jsonString(Tail(s))
    ELSE SubSeq(s, 1, RuneLen(s))
           \o jsonString(SubSeq(s, RuneLen(s) + 1, Len(s)))

\* A map with string keys is written as a JSON object whose keys go
\* through jsonString; the encoder writes the members in the order of the
\* original keys and the decoder keeps the last member of a repeated key:
\* the key of mp whose member the decoder keeps under j
jsonKey(mp, j) ==
    CHOOSE k \in DOMAIN mp :
        /\ jsonString(k) = j
        /\ \A o \in DOMAIN mp : jsonString(o) = j => ~StrLess(k, o)

\* map[string]string through the encoder and the decoder
jsonStringMap(mp) ==
    [j \in {jsonString(k) : k \in DOMAIN mp} |->
        jsonString(mp[jsonKey(mp, j)])]

jsonStrings(q) == [i \in 1..Len(q) |-> jsonString(q[i])]
\* an Entry through json.MarshalIndent and json.Unmarshal: the struct has no
\* tags, so every field is written; strings are coerced, Content goes
\* through base64 and the times through RFC 3339 with nanoseconds, both
\* without loss
jsonEntry(r) ==
    [r EXCEPT !.ID = jsonString(r.ID),
              !.Category = jsonString(r.Category),
              !.SubjectIDs = jsonStrings(r.SubjectIDs),
              !.Tags = jsonStrings(r.Tags),
              !.Metadata = jsonStringMap(r.Metadata)]

\* map[string]Entry through the encoder and the decoder
jsonEntryMap(mp) ==
    [j \in {jsonString(k) : k \in DOMAIN mp} |-> jsonEntry(mp[jsonKey(mp, j)])]

\* fileData as flush marshals it, seen as the value a decoder gets back
Marshal(st) ==
    [records |-> jsonEntryMap(st.records),
     deleted_records |-> jsonEntryMap(st.deletedRecs)]
EmptyData == [records |-> EmptyMap, deleted_records |-> EmptyMap]

\* a file of the file system: absent, completely written, or cut short
NoFile == [exists |-> FALSE, complete |-> FALSE, data |-> EmptyData]
File(data) == [exists |-> TRUE, complete |-> TRUE, data |-> data]
PartFile == [exists |-> TRUE, complete |-> FALSE, data |-> EmptyData]

\* a flush that writes the data over the live file itself
FileStore_flush_WriteFile_InPlace(disk, data, outcome) ==
    IF outcome = "ok" THEN [disk EXCEPT !.live = File(data)]
    ELSE IF outcome = "partial" THEN [disk EXCEPT !.live = PartFile]
    ELSE disk

\* os.WriteFile(tempFile, data, 0644) of flush: the temp file is written
\* whole, or the call fails after it truncated or partly wrote it, or
\* fails before it touched it
FileStore_flush_WriteFile(disk, data, outcome) ==
    IF outcome = "ok" THEN [disk EXCEPT !.tmp = File(data)]
    ELSE IF outcome = "partial" THEN [disk EXCEPT !.tmp = PartFile]
    ELSE disk

\* os.Rename(tempFile, f.filename) of flush, when it succeeds
FileStore_flush_Rename(disk) == [live |-> disk.tmp, tmp |-> NoFile]

\* a Close that empties the store whatever flush returned
FileStore_Close_Always(st, err) ==
    [st |-> [st EXCEPT !.records = EmptyMap, !.deletedRecs = EmptyMap],
     open |-> FALSE, err |-> err]

\* Close once flush has returned err (or was not needed), st being the
\* store as flush left it: the error of flush is returned as it is,
\* otherwise the maps are set to nil
FileStore_Close(st, err) ==
    IF err THEN [st |-> st, open |-> TRUE, err |-> TRUE]
    ELSE [st |-> [st EXCEPT !.records = EmptyMap, !.deletedRecs = EmptyMap],
          open |-> FALSE, err |-> FALSE]

\* Flush once flush has returned err (or was not needed)
FileStore_Flush(st, err) == [st |-> st, open |-> TRUE, err |-> err]

\* Open: no file gives empty maps; a file that cannot be read or parsed is
\* an error; otherwise the maps of the file replace those of the store
FileStore_Open(st, disk, readable) ==
    IF ~disk.live.exists
    THEN [st |-> [st EXCEPT !.records = EmptyMap, !.deletedRecs = EmptyMap],
          err |-> FALSE]
    ELSE IF ~readable \/ ~disk.live.complete THEN [st |-> st, err |-> TRUE]
    ELSE [st |-> [records |-> disk.live.data.records,
                  deletedRecs |-> disk.live.data.deleted_records,
                  isDirty |-> FALSE],
          err |-> FALSE]

\* the records handed to the store in SpecFile
FileEntries == {Entry(ID_A, Content1, 1, 1), Entry(ID_Bad, Content2, 1, 1)}

\* In SpecFile the variable rows holds the file system (the live file and
\* the temp file), query the position of the store: whether it is open,
\* the call in progress, its step, the marshalled data, and the store and
\* live file as they were when the call began; result holds the outcome of
\* the call that has just returned.
NoCall == [op |-> "none", err |-> FALSE, at |-> "none", reopened |-> FALSE]
Snapshot == [records |-> records, deletedRecs |-> deletedRecs,
             live |-> rows.live]

InitFile ==
    /\ kind = "file"
    /\ records = EmptyMap
    /\ deletedRecs = EmptyMap
    /\ isDirty = FALSE
    /\ rows = [live |-> NoFile, tmp |-> NoFile]
    /\ now = 1
    /\ last = [op |-> "none", id |-> EmptyStr, ok |-> TRUE]
    /\ query = [open |-> TRUE, op |-> "none", pc |-> "idle",
                data |-> EmptyData, crashed |-> FALSE, closed |-> FALSE,
                before |-> [records |-> EmptyMap, deletedRecs |-> EmptyMap,
                            live |-> NoFile]]
    /\ result = NoCall

Idle == query.open /\ query.op = "none"

\* a mutation of the open store between calls
SetFileStore(res) ==
    /\ ~res.err
    /\ records' = res.st.records
    /\ deletedRecs' = res.st.deletedRecs
    /\ isDirty' = res.st.isDirty
    /\ result' = NoCall
    /\ query' = [query EXCEPT !.closed = FALSE, !.crashed = FALSE]
    /\ UNCHANGED <<kind, rows, now, last>>

FileAddRecord ==
    /\ Idle
    /\ \E record \in FileEntries :
         SetFileStore(FileStore_AddRecord(St, record, now))

FileDeleteRecord ==
    /\ Idle
    /\ \E record \in FileEntries :
         SetFileStore(FileStore_DeleteRecord(St, record.ID))

\* a call returns to its caller
Return(res, op, at, before) ==
    /\ records' = res.st.records
    /\ deletedRecs' = res.st.deletedRecs
    /\ isDirty' = res.st.isDirty
    /\ result' = [op |-> op, err |-> res.err, at |-> at, reopened |-> FALSE]
    /\ query' = [query EXCEPT !.open = res.open, !.op = "none",
                              !.pc = "idle", !.crashed = FALSE,
                              !.data = EmptyData, !.before = before,
                              !.closed = (op = "Close" /\ ~res.err)]

Finish(op, st, err) ==
    IF op = "Close" THEN FileStore_Close(st, err)
    ELSE FileStore_Flush(st, err)

\* Flush or Close is called: with isDirty false there is nothing to flush
FileCall ==
    /\ Idle
    /\ \E op \in {"Flush", "Close"} :
         IF isDirty
         THEN /\ query' = [query EXCEPT !.op = op, !.pc = "marshal",
                                        !.before = Snapshot,
                                        !.crashed = FALSE, !.closed = FALSE]
              /\ result' = NoCall
              /\ UNCHANGED <<records, deletedRecs, isDirty>>
         ELSE Return(Finish(op, St, FALSE), op, "none", Snapshot)
    /\ UNCHANGED <<kind, rows, now, last>>

\* flush: json.MarshalIndent
FlushMarshal ==
    /\ query.pc = "marshal"
    /\ \E ok \in BOOLEAN :
         IF ok
         THEN /\ query' = [query EXCEPT !.pc = "write", !.data = Marshal(St)]
              /\ UNCHANGED <<records, deletedRecs, isDirty, result>>
         ELSE Return(Finish(query.op, St, TRUE), query.op, "marshal",
                     query.before)
    /\ UNCHANGED <<kind, rows, now, last>>

\* flush: os.WriteFile on the temp file
FlushWrite ==
    /\ query.pc = "write"
    /\ \E outcome \in {"ok", "partial", "untouched"} :
         /\ rows' = FileStore_flush_WriteFile(rows, query.data, outcome)
         /\ IF outcome = "ok"
            THEN /\ query' = [query EXCEPT !.pc = "rename"]
                 /\ UNCHANGED <<records, deletedRecs, isDirty, result>>
            ELSE Return(Finish(query.op, St, TRUE), query.op, "write",
                        query.before)
    /\ UNCHANGED <<kind, now, last>>

\* flush: os.Rename, then isDirty = false
FlushRename ==
    /\ query.pc = "rename"
    /\ \E ok \in BOOLEAN :
         IF ok
         THEN /\ rows' = FileStore_flush_Rename(rows)
              /\ Return(Finish(query.op, [St EXCEPT !.isDirty = FALSE],
                               FALSE),
                        query.op, "none", query.before)
         ELSE /\ UNCHANGED rows
              /\ Return(Finish(query.op, St, TRUE), query.op, "rename",
                        query.before)
    /\ UNCHANGED <<kind, now, last>>

\* the process dies, between calls or between two steps of a flush: what
\* was in memory is gone, the files stay as they are
Crash ==
    /\ query.open
    /\ records' = EmptyMap
    /\ deletedRecs' = EmptyMap
    /\ isDirty' = FALSE
    /\ query' = [query EXCEPT !.open = FALSE, !.pc = "idle",
                              !.data = EmptyData,
                              !.crashed = TRUE, !.closed = FALSE,
                              !.before = IF query.op = "none" THEN Snapshot
                                         ELSE query.before]
    /\ result' = NoCall
    /\ UNCHANGED <<kind, rows, now, last>>

\* Open on the closed store, or on a new store after a crash
FileOpen ==
    /\ ~query.open
    /\ \E readable \in BOOLEAN :
         LET res == FileStore_Open(St, rows, readable)
         IN /\ records' = res.st.records
            /\ deletedRecs' = res.st.deletedRecs
            /\ isDirty' = res.st.isDirty
            /\ result' = [op |-> "Open", err |-> res.err, at |-> "none",
                          reopened |-> query.closed /\ ~res.err]
            /\ query' = [query EXCEPT !.open = ~res.err, !.op = "none"]
    /\ UNCHANGED <<kind, rows, now, last>>

NextFile ==
    \/ FileAddRecord
    \/ FileDeleteRecord
    \/ FileCall
    \/ FlushMarshal
    \/ FlushWrite
    \/ FlushRename
    \/ Crash
    \/ FileOpen

SpecFile == InitFile /\ [][NextFile]_vars

(* ------------------------ claims: the store file ----------------------- *)
\* C26: when flush fails at serialization, at writing the temp file or at
\* the rename, in Flush or in Close, the call returns the error, the live
\* file keeps its previous content, isDirty stays true and the records in
\* memory are kept (Close does not discard them)
C26_FailedFlushKeepsState ==
    (result.op \in {"Flush", "Close"} /\ result.err)
    => /\ result.at \in {"marshal", "write", "rename"}
       /\ rows.live = query.before.live
       /\ isDirty
       /\ query.open
       /\ records = query.before.records
       /\ deletedRecs = query.before.deletedRecs
\* Close has failed at the rename with a record in memory
C26_Witness ==
    /\ result.op = "Close"
    /\ result.err
    /\ result.at = "rename"
    /\ records # EmptyMap
    /\ rows.tmp.complete

\* C27: at every step of Flush or Close, and after a crash between any two
\* of the steps, the live file holds either the complete previous state or
\* the complete new state
C27_LiveFileIsOldOrNew ==
    /\ rows.live.exists => rows.live.complete
    /\ (query.op # "none" \/ query.crashed)
       => \/ rows.live = query.before.live
          \/ rows.live = File(Marshal(query.before))
\* the process died between the write of the temp file and the rename: the
\* temp file holds the new state, the live file still the previous one
C27_Witness ==
    /\ query.crashed
    /\ query.op = "Flush"
    /\ rows.tmp.complete
    /\ rows.live.complete
    /\ rows.live # rows.tmp
    /\ rows.live = query.before.live

\* C28 as stated: Close followed by Open on the same file restores exactly
\* the live and the soft-deleted partition the store had before Close
C28_CloseOpenRestores ==
    (result.op = "Open" /\ result.reopened)
    => /\ records = query.before.records
       /\ deletedRecs = query.before.deletedRecs

\* C36 as stated: for an open FileStore, whenever isDirty is false the
\* content of the live file equals the live and deleted partitions in
\* memory, an absent file counting as two empty partitions
C36_CleanStoreEqualsFile ==
    (query.open /\ ~isDirty)
    => rows.live.data = [records |-> records, deleted_records |-> deletedRecs]

(* --------------- PgStore.SearchRecords (SpecPgSearch) ------------------ *)
\* the map of fieldToColumnName
fieldMap ==
    [ID |-> "id", Category |-> "category", ContentType |-> "content_type",
     Content |-> "content", Importance |-> "importance",
     CreatedAt |-> "created_at", UpdatedAt |-> "updated_at",
     ExpiresAt |-> "expires_at", SourceID |-> "source_id",
     SourceType |-> "source_type", OwnerID |-> "owner_id",
     OwnerType |-> "owner_type", SubjectIDs |-> "subject_ids",
     SubjectType |-> "subject_type", Tags |-> "tags",
     References |-> "references", Metadata |-> "metadata"]

\* a fieldToColumnName that makes up a column for a field it does not know
fieldToColumnName_Any(field) ==
    IF field \in DOMAIN fieldMap THEN fieldMap[field] ELSE "unknown"

fieldToColumnName(field) ==
    IF field \in DOMAIN fieldMap THEN fieldMap[field] ELSE ""

\* A condition clause of the SQL text: the column, the SQL operator around
\* the placeholder, the number of the placeholder $n (0: none), and the
\* value of the condition the placeholder stands for.
Clause(column, sql, param, value) ==
    [column |-> column, sql |-> sql, param |-> param, value |-> value]
Built(clause, next) == [clause |-> clause, next |-> next, err |-> FALSE]
BuildError(paramIndex) ==
    [clause |-> Clause("", "", 0, StrVal(EmptyStr)), next |-> paramIndex,
     err |-> TRUE]

\* buildConditionClause, for the array fields, the time fields and the
\* standard fields (Metadata, Content and References conditions are not
\* modelled)
buildConditionClause(condition, paramIndex) ==
    LET columnName == fieldToColumnName(condition.Field)
        op == condition.Operator
        one(sql) == Built(Clause(columnName, sql, paramIndex,
                                 condition.Value), paramIndex + 1)
    IN IF columnName = "" THEN BuildError(paramIndex)
       ELSE CASE condition.Field \in {"Tags", "SubjectIDs"} ->
                   IF op \in {"=", "CONTAINS"} THEN one("= ANY")
                   ELSE IF op = "@>" THEN one("@>")
                   ELSE BuildError(paramIndex)
              [] condition.Field \in {"CreatedAt", "UpdatedAt", "ExpiresAt"} ->
                   IF op = "=" THEN one("::date =")
                   ELSE IF op \in {">", "<", ">=", "<="} THEN one(op)
                   ELSE IF op = "BETWEEN"
                   THEN IF condition.Value.t = "ifslice"
                           /\ Len(condition.Value.v) = 2
                        THEN Built(Clause(columnName, "BETWEEN", paramIndex,
                                          condition.Value), paramIndex + 2)
                        ELSE BuildError(paramIndex)
                   ELSE BuildError(paramIndex)
              [] condition.Field \notin {"Metadata", "Content", "References",
                                         "Tags", "SubjectIDs", "CreatedAt",
                                         "UpdatedAt", "ExpiresAt"} ->
                   IF op \in {"=", "!=", ">", "<", ">=", "<="} THEN one(op)
                   ELSE IF op \in {"LIKE", "CONTAINS"} THEN one("LIKE %$%")
                   ELSE IF op = "STARTSWITH" THEN one("LIKE $%")
                   ELSE IF op = "ENDSWITH" THEN one("LIKE %$")
                   ELSE IF op = "IN" THEN one("IN")
                   ELSE IF op \in {"IS NULL", "IS NOT NULL"}
                   THEN Built(Clause(columnName, op, 0, condition.Value),
                              paramIndex)
                   ELSE BuildError(paramIndex)

\* the loop of buildWhereClause over group.Conditions, from the i-th on
RECURSIVE buildConditions(_, _, _)
buildConditions(conditions, i, paramIndex) ==
    IF i > Len(conditions)
    THEN [clauses |-> <<>>, next |-> paramIndex, err |-> FALSE]
    ELSE LET b == buildConditionClause(conditions[i], paramIndex)
         IN IF b.err THEN [clauses |-> <<>>, next |-> paramIndex, err |-> TRUE]
            ELSE LET rest == buildConditions(conditions, i + 1, b.next)
                 IN [clauses |-> <<[nested |-> FALSE, clause |-> b.clause]>>
                                   \o rest.clauses,
                     next |-> rest.next, err |-> rest.err]

\* the text a group is turned into: its clauses in order, joined by the
\* operator; no clause at all is the empty string
Where(operator, clauses) == [operator |-> operator, clauses |-> clauses]

\* buildWhereClause: a NOT group joins its clauses with " AND NOT ", an
\* unknown operator with " AND "; a nested group goes in parentheses, and
\* every nested group is numbered from the same paramIndex
RECURSIVE buildWhereClause(_, _)
buildWhereClause(group, startParamIndex) ==
    LET operator == IF group.Operator = "OR" THEN "OR"
                    ELSE IF group.Operator = "NOT" THEN "AND NOT"
                    ELSE "AND"
        conds == buildConditions(group.Conditions, 1, startParamIndex)
        nested(j) == buildWhereClause(group.Groups[j], conds.next)
        kept == SelectSeq([j \in 1..Len(group.Groups) |-> j],
                          LAMBDA j : nested(j).where.clauses # <<>>)
    IN IF conds.err \/ \E j \in 1..Len(group.Groups) : nested(j).err
       THEN [where |-> Where(operator, <<>>), err |-> TRUE]
       ELSE [where |->
                Where(operator,
                      conds.clauses
                        \o [n \in 1..Len(kept) |->
                              [nested |-> TRUE,
                               clause |-> nested(kept[n]).where]]),
             err |-> FALSE]

\* the value of a column in a row of knowledge_entry
ColumnValue(row, column) ==
    CASE column = "id" -> StrVal(row.entry.ID)
      [] column = "category" -> StrVal(row.entry.Category)
      [] column = "importance" -> IntVal(row.entry.Importance)
      [] column = "tags" -> SliceVal(row.entry.Tags)

\* whether a condition clause holds in a row when its placeholder is bound
\* to the value of its condition
ClauseHolds(row, clause) ==
    LET col == ColumnValue(row, clause.column)
    IN CASE clause.sql = "IS NULL" -> FALSE
         [] clause.sql = "IS NOT NULL" -> TRUE
         [] clause.sql = "= ANY" /\ clause.value.t = "string" ->
              \E i \in 1..Len(col.v) : col.v[i] = clause.value.v
         [] clause.sql = "=" /\ col.t = clause.value.t ->
              col.v = clause.value.v
         [] clause.sql = "!=" /\ col.t = clause.value.t ->
              col.v # clause.value.v
         [] clause.sql = ">" /\ col.t = "int" /\ clause.value.t = "int" ->
              col.v > clause.value.v
         [] clause.sql = "<" /\ col.t = "int" /\ clause.value.t = "int" ->
              col.v < clause.value.v

\* whether the text of a group holds in a row: NOT binds tighter than AND,
\* so "a AND NOT b AND NOT c" is a and not b and not c
RECURSIVE WhereHolds(_, _)
WhereHolds(row, where) ==
    LET holds(i) == IF where.clauses[i].nested
                    THEN WhereHolds(row, where.clauses[i].clause)
                    ELSE ClauseHolds(row, where.clauses[i].clause)
        n == Len(where.clauses)
    IN CASE where.operator = "AND" -> \A i \in 1..n : holds(i)
         [] where.operator = "OR" -> \E i \in 1..n : holds(i)
         [] where.operator = "AND NOT" ->
              holds(1) /\ \A i \in 2..n : ~holds(i)

\* the placeholders of a clause
RECURSIVE Placeholders(_)
Placeholders(where) ==
    UNION {IF where.clauses[i].nested
           THEN Placeholders(where.clauses[i].clause)
           ELSE IF where.clauses[i].clause.param = 0 THEN {}
           ELSE IF where.clauses[i].clause.sql = "BETWEEN"
           THEN {where.clauses[i].clause.param,
                 where.clauses[i].clause.param + 1}
           ELSE {where.clauses[i].clause.param} :
           i \in 1..Len(where.clauses)}

\* buildSearchQuery, for filters without ORDER BY, LIMIT and OFFSET: the
\* partition test, the text of the root group, and the arguments, which
\* are the account and nothing else
buildSearchQuery(filter, acct) ==
    LET root == buildWhereClause(filter.RootGroup, 2)
        hasWhere == ~(Len(filter.RootGroup.Conditions) = 0
                        /\ Len(filter.RootGroup.Groups) = 0)
    IN CASE filter.OrderBy = "" /\ filter.Limit <= 0 /\ filter.Offset <= 0 ->
         [deleted |-> IF filter.OnlyDeleted THEN {TRUE}
                      ELSE IF ~filter.IncludeDeleted THEN {FALSE}
                      ELSE BOOLEAN,
          hasWhere |-> hasWhere,
          where |-> root.where,
          args |-> <<acct>>,
          err |-> hasWhere /\ root.err]

PgResult(recs, err, executed) ==
    [recs |-> recs, err |-> err, executed |-> executed]

\* the set of results PgStore.SearchRecords may return on an initialized
\* store. The database rejects a query whose parenthesised text is empty
\* or that has a placeholder without an argument, and it may fail for
\* reasons of its own (dbErr); rows come back in no specified order.
PgStore_SearchRecords(tbl, acct, filter, dbErr) ==
    LET q == buildSearchQuery(filter, acct)
        selected == {k \in DOMAIN tbl :
                        /\ k[1] = acct
                        /\ tbl[k].is_deleted \in q.deleted
                        /\ q.hasWhere => WhereHolds(tbl[k], q.where)}
    IN IF q.err THEN {PgResult(<<>>, "build", FALSE)}
       ELSE IF dbErr
               \/ (q.hasWhere /\ q.where.clauses = <<>>)
               \/ (q.hasWhere
                     /\ \E n \in Placeholders(q.where) : n > Len(q.args))
       THEN {PgResult(<<>>, "execute", TRUE)}
       ELSE {PgResult([i \in 1..Len(o) |-> tbl[o[i]].entry], "", TRUE) :
                o \in Orderings(selected)}

\* the operators the in-process engines compare two times with
TimeOps == {"=", "!=", ">", "<", ">=", "<="}

\* the root groups of the searches: every operator around a condition, one
\* without a placeholder, two conditions, nested groups, a nested group
\* without children, fields that have no column at depth 1, 2 and 3, one
\* after an operator the field does not support, a time under every
\* operator for times
PgGroups ==
    {Group(op, <<c>>, <<>>) :
        op \in FilterOps,
        c \in {Cond("Category", "=", StrVal(CategoryFact)),
               Cond("Category", "IS NOT NULL", StrVal(EmptyStr)),
               Cond("Bogus", "=", StrVal(TagB))}}
    \cup {Group("NOT", <<Cond("Category", "=", StrVal(CategoryFact)),
                        Cond("Tags", "CONTAINS", StrVal(TagU))>>, <<>>),
          Group("NOT", <<>>, <<Group("AND", <<Cond("Category", "=",
                                     StrVal(CategoryFact))>>, <<>>)>>),
          Group("AND", <<>>, <<EmptyGroup>>),
          EmptyGroup,
          Group("AND", <<Cond("Category", "=", StrVal(CategoryFact))>>,
                <<Group("OR", <<>>, <<Group("NOT", <<Cond("importance", "=",
                                            StrVal(TagB))>>, <<>>)>>)>>),
          Group("OR", <<>>, <<EmptyGroup, Group("", <<Cond("Bogus", ">",
                                                 StrVal(TagB))>>, <<>>)>>),
          Group("AND", <<Cond("Tags", ">", StrVal(TagB)),
                        Cond("Bogus", "=", StrVal(TagB))>>, <<>>)}
    \cup {Group("AND", <<Cond("CreatedAt", op, TimeVal(1, 0))>>, <<>>) :
            op \in TimeOps}
PgFilters ==
    {DefaultFilter(g) : g \in PgGroups}
    \cup {Filter(EmptyGroup, 0, 0, "", "", inc, only) :
            inc \in BOOLEAN, only \in BOOLEAN}

NoPgResult == [done |-> FALSE, recs |-> <<>>, err |-> "", executed |-> FALSE]

InitPgSearch ==
    /\ kind = "pg"
    /\ records = EmptyMap
    /\ deletedRecs = EmptyMap
    /\ isDirty = FALSE
    /\ rows = EmptyMap
    /\ now = 1
    /\ last = [op |-> "none", id |-> EmptyStr, ok |-> TRUE]
    /\ query = NoSearch
    /\ result = NoPgResult

SetSearchedTable(res, op, id) ==
    /\ rows' = res.tbl
    /\ last' = [op |-> op, id |-> id, ok |-> ~res.err]
    /\ query' = NoSearch
    /\ result' = NoPgResult
    /\ UNCHANGED <<kind, records, deletedRecs, isDirty, now>>

PgSearchAddRecord ==
    /\ kind = "pg"
    /\ \E acct \in Accounts, record \in SearchEntries, dbErr \in BOOLEAN :
         SetSearchedTable(PgStore_AddRecord(rows, acct, record, now, dbErr),
                          "AddRecord", record.ID)

PgSearchDeleteRecord ==
    /\ kind = "pg"
    /\ \E acct \in Accounts, record \in SearchEntries, dbErr \in BOOLEAN :
         SetSearchedTable(PgStore_DeleteRecord(rows, acct, record.ID, now,
                                               dbErr),
                          "DeleteRecord", record.ID)

PgSearchRecords ==
    \E acct \in Accounts, filter \in PgFilters, dbErr \in BOOLEAN :
      \E res \in PgStore_SearchRecords(rows, acct, filter, dbErr) :
        /\ query' = filter
        /\ result' = [done |-> TRUE, recs |-> res.recs, err |-> res.err,
                      executed |-> res.executed]
        /\ last' = [op |-> "SearchRecords", id |-> EmptyStr,
                    ok |-> res.err = ""]
        /\ UNCHANGED <<kind, records, deletedRecs, isDirty, rows, now>>

NextPgSearch ==
    \/ PgSearchAddRecord
    \/ PgSearchDeleteRecord
    \/ PgSearchRecords

SpecPgSearch == InitPgSearch /\ [][NextPgSearch]_vars

(* ---------------------- claims: PgStore searches ----------------------- *)
\* the rows of the table as the in-process engine would see them
TableRows == {rows[k] : k \in DOMAIN rows}

\* C29 as stated: the WHERE clause buildWhereClause generates for a NOT
\* group selects exactly the rows the in-process engine matches for that
\* group: those for which none of its children holds
C29_NotClauseMatchesEngine ==
    (result.done /\ result.err # "build"
        /\ query.RootGroup.Operator = "NOT" /\ HasChildren(query.RootGroup))
    => \A row \in TableRows :
          WhereHolds(row, buildWhereClause(query.RootGroup, 2).where)
            <=> FileStore_matchesFilter(row.entry, query.RootGroup)

\* a condition, at any depth, on a field that is not in the allow-list
RECURSIVE HasUnlistedField(_)
HasUnlistedField(g) ==
    \/ \E i \in 1..Len(g.Conditions) :
          g.Conditions[i].Field \notin DOMAIN fieldMap
    \/ \E i \in 1..Len(g.Groups) : HasUnlistedField(g.Groups[i])

\* C30: PgStore.SearchRecords returns a query-construction error and
\* executes no query whenever the filter tree contains, at any depth, a
\* condition whose Field is not in the field-to-column allow-list
C30_UnlistedFieldIsRejected ==
    (result.done /\ HasUnlistedField(query.RootGroup))
    => /\ result.err = "build"
       /\ ~result.executed
       /\ result.recs = <<>>
\* the unlisted field is two groups down, and the table has a row
C30_Witness ==
    /\ result.done
    /\ result.err = "build"
    /\ ~HasUnknownField(query.RootGroup)
    /\ HasUnlistedField(query.RootGroup)
    /\ Len(query.RootGroup.Conditions) = 1
    /\ rows # EmptyMap

(* ----------------- claims: limits and offsets of a search -------------- *)
\* C39 as stated: SearchRecords neither panics nor returns an error for
\* any integer Limit and Offset, negative ones included, on MemoryStore
\* and FileStore
C39_AnyLimitAndOffset ==
    result.done => (~result.panic /\ ~result.err)

(* ---------------------- claims: creation times ------------------------- *)
\* C37 as stated: the stored CreatedAt of a record never changes and is
\* never zero: UpdateRecord and a LoadRecords call that updates an
\* existing record keep the CreatedAt the record was created with
C37_CreatedAtIsKept ==
    [][last'.op \in {"UpdateRecord", "LoadRecords"}
       => /\ \A id \in DOMAIN records \cap DOMAIN records' :
                /\ records'[id].CreatedAt = records[id].CreatedAt
                /\ records'[id].CreatedAt # 0
          /\ \A k \in DOMAIN rows \cap DOMAIN rows' :
                ~rows[k].is_deleted
                => /\ rows'[k].entry.CreatedAt = rows[k].entry.CreatedAt
                   /\ rows'[k].entry.CreatedAt # 0]_vars

(* ------------------ claims: contended AddRecord ------------------------ *)
\* the callers whose AddRecord returned nil
Winners == {c \in Callers : result.ret[c] = "ok"}

\* C38: when callers concurrently call AddRecord with the same ID on one
\* MemoryStore or FileStore, exactly one call succeeds, the others return
\* an error, and the record stored afterwards is the one the successful
\* call passed
C38_OneAddRecordWins ==
    (query.same /\ \A c \in Callers : query.pc[c] = "done")
    => /\ Cardinality(Winners) = 1
       /\ \A c \in Callers \ Winners : result.ret[c] = "err"
       /\ DOMAIN records = {ID_A}
       /\ \A c \in Winners :
             records[ID_A] = WithTimestamps(ConcEntry(c), now)
\* every caller has returned; the second one got in first
C38_Witness ==
    /\ query.same
    /\ \A c \in Callers : query.pc[c] = "done"
    /\ Winners = {2}
    /\ records[ID_A].Content = ConcEntry(2).Content

(* --------------------- a closed store (SpecClosed) --------------------- *)
\* MemoryStore.Close: both maps become nil; there is nothing to fail
MemoryStore_Close(st) ==
    [st |-> [st EXCEPT !.records = EmptyMap, !.deletedRecs = EmptyMap],
     open |-> FALSE, err |-> FALSE]

\* MemoryStore.Open: makes the maps that are nil, keeps the others
MemoryStore_Open(st) == [st |-> st, err |-> FALSE]

\* In SpecClosed rows holds the file system as in SpecFile, query whether
\* the store is closed (its maps are nil), result the last call and how it
\* ended. A nil map reads as an empty one, delete on it does nothing, and
\* an assignment to one of its entries panics: a call on the closed store
\* panics exactly when it would have put an entry into a map.
Calls ==
    {"AddRecord", "GetRecord", "UpdateRecord", "DeleteRecord",
     "RestoreRecord", "PurgeRecord", "LoadRecords", "SearchRecords", "Flush"}
NoClosedCall ==
    [op |-> "none", err |-> FALSE, panic |-> FALSE, closed |-> FALSE,
     wrote |-> FALSE]

InitClosed ==
    /\ kind \in {"file", "memory"}
    /\ records = EmptyMap
    /\ deletedRecs = EmptyMap
    /\ isDirty = FALSE
    /\ rows = [live |-> NoFile, tmp |-> NoFile]
    /\ now = 1
    /\ last = [op |-> "none", id |-> EmptyStr, ok |-> TRUE]
    /\ query = [closed |-> FALSE]
    /\ result = NoClosedCall

\* what the call op returns on the store st, as [st, err, panic]
Called(op, st, record, batch, filter) ==
    CASE op = "AddRecord" ->
           {[st |-> r.st, err |-> r.err, panic |-> FALSE] :
               r \in {Store_AddRecord(st, record, now)}}
      [] op = "GetRecord" ->
           {[st |-> st, err |-> Store_GetRecord(st, record.ID).err,
             panic |-> FALSE]}
      [] op = "UpdateRecord" ->
           {[st |-> r.st, err |-> r.err, panic |-> FALSE] :
               r \in {Store_UpdateRecord(st, record, now)}}
      [] op = "DeleteRecord" ->
           {[st |-> r.st, err |-> r.err, panic |-> FALSE] :
               r \in {Store_DeleteRecord(st, record.ID)}}
      [] op = "RestoreRecord" ->
           {[st |-> r.st, err |-> r.err, panic |-> FALSE] :
               r \in {Store_RestoreRecord(st, record.ID)}}
      [] op = "PurgeRecord" ->
           {[st |-> r.st, err |-> r.err, panic |-> FALSE] :
               r \in {Store_PurgeRecord(st, record.ID)}}
      [] op = "LoadRecords" ->
           {[st |-> r.st, err |-> r.err, panic |-> FALSE] :
               r \in {Store_LoadRecords(st, batch, now)}}
      [] op = "SearchRecords" ->
           {[st |-> st, err |-> r.err, panic |-> r.panic] :
               r \in Store_SearchRecords(st, filter)}
      [] op = "Flush" ->
           {[st |-> st, err |-> FALSE, panic |-> FALSE]}

\* a call on the open store; Flush is left to Close
OpenCall ==
    /\ ~query.closed
    /\ \E op \in Calls \ {"Flush"}, record \in FileEntries :
         \E r \in Called(op, St, record, <<record>>, NoSearch) :
            /\ records' = r.st.records
            /\ deletedRecs' = r.st.deletedRecs
            /\ isDirty' = r.st.isDirty
            /\ result' = [NoClosedCall EXCEPT !.op = op, !.err = r.err,
                                              !.panic = r.panic]
    /\ UNCHANGED <<kind, rows, now, last, query>>

\* Close: the FileStore flushes first when isDirty is set, and stays open
\* when the flush fails
StoreClose ==
    /\ ~query.closed
    /\ \E ok \in BOOLEAN :
         LET flushes == kind = "file" /\ isDirty
             res == IF kind = "memory" THEN MemoryStore_Close(St)
                    ELSE IF ~flushes THEN FileStore_Close(St, FALSE)
                    ELSE IF ok
                    THEN FileStore_Close([St EXCEPT !.isDirty = FALSE], FALSE)
                    ELSE FileStore_Close(St, TRUE)
         IN /\ flushes \/ ok
            /\ rows' = IF flushes /\ ok
                       THEN FileStore_flush_Rename(
                              FileStore_flush_WriteFile(rows, Marshal(St),
                                                        "ok"))
                       ELSE rows
            /\ records' = res.st.records
            /\ deletedRecs' = res.st.deletedRecs
            /\ isDirty' = res.st.isDirty
            /\ query' = [closed |-> ~res.open]
            /\ result' = [NoClosedCall EXCEPT !.op = "Close", !.err = res.err]
    /\ UNCHANGED <<kind, now, last>>

\* a call between Close and the next Open
ClosedCall ==
    /\ query.closed
    /\ \E op \in Calls, record \in InputEntries, batch \in Batches :
         \E r \in Called(op, St, record, batch, NoSearch) :
            LET assigns == \/ r.st.records # St.records
                           \/ r.st.deletedRecs # St.deletedRecs
            IN result' = [op |-> op, err |-> r.err /\ ~assigns,
                          panic |-> r.panic \/ assigns, closed |-> TRUE,
                          wrote |-> op = "Flush" /\ kind = "file" /\ isDirty]
    /\ UNCHANGED <<kind, records, deletedRecs, isDirty, rows, now, last,
                   query>>

\* Open on the closed store
StoreOpen ==
    /\ query.closed
    /\ \E readable \in BOOLEAN :
         LET res == IF kind = "file" THEN FileStore_Open(St, rows, readable)
                    ELSE MemoryStore_Open(St)
         IN /\ records' = res.st.records
            /\ deletedRecs' = res.st.deletedRecs
            /\ isDirty' = res.st.isDirty
            /\ query' = [closed |-> res.err]
            /\ result' = [NoClosedCall EXCEPT !.op = "Open", !.err = res.err]
    /\ UNCHANGED <<kind, rows, now, last>>

NextClosed ==
    \/ OpenCall
    \/ StoreClose
    \/ ClosedCall
    \/ StoreOpen

SpecClosed == InitClosed /\ [][NextClosed]_vars

(* ---------------------- claims: a closed store -------------------------- *)
\* C40 as stated: after Close has returned, every operation called before
\* the next Open returns an error or behaves as on an empty store; none
\* panics and none changes the persisted file
C40_ClosedStoreIsSafe ==
    result.closed => (~result.panic /\ ~result.wrote)

(* ------------------ claims: the text of a search ------------------------ *)
\* C34 as stated: the query text and the argument list buildSearchQuery
\* returns agree: the placeholders of the text are $1..$n, n being the
\* length of the argument list
C34_PlaceholdersAreBound ==
    (result.done /\ result.err # "build")
    => \A acct \in Accounts :
          {1} \cup Placeholders(buildSearchQuery(query, acct).where)
             = 1..Len(buildSearchQuery(query, acct).args)

\* C35 as stated: for a condition on CreatedAt, UpdatedAt or ExpiresAt
\* buildConditionClause accepts each of the operators =, !=, >, <, >=, <=,
\* which the in-process engines support for time fields
C35_TimeOperatorsAreAccepted ==
    (/\ result.done
     /\ Len(query.RootGroup.Conditions) = 1
     /\ query.RootGroup.Conditions[1].Field
          \in {"CreatedAt", "UpdatedAt", "ExpiresAt"}
     /\ query.RootGroup.Conditions[1].Operator \in TimeOps)
    => result.err # "build"

(* ------------- PgStore.Open and runMigrations (SpecMigrate) ------------ *)
\* the number of migrations in the list: the source has version 1, the
\* later ones stand for those the list is extended with
MaxMigration == 2

\* the list of migrations, in order of their versions
migrations == [i \in 1..MaxMigration |-> [Version |-> i]]

\* the processes that open a store on the one database
Openers == {"p", "q"}

\* The database is [schema, versions]: the migrations whose changes are
\* committed, and the rows of knowledge_schema_version. A transaction holds
\* the same two sets, not committed yet.
NoTx == [schema |-> {}, versions |-> {}]

\* the loop's test for a migration still to apply
Pending_Always(migration, currentVersion) == TRUE
Pending(migration, currentVersion) == migration.Version > currentVersion

\* tx.Exec(migration.SQL)
tx_Exec(tx, migration) ==
    [tx EXCEPT !.schema = @ \cup {migration.Version}]

\* tx.Exec of the INSERT INTO knowledge_schema_version
tx_Insert(tx, migration) ==
    [tx EXCEPT !.versions = @ \cup {migration.Version}]

\* tx.Commit, when it succeeds
tx_Commit(db, tx) ==
    [schema |-> db.schema \cup tx.schema,
     versions |-> db.versions \cup tx.versions]

\* tx.Rollback, and a commit that fails: the database keeps what it had
tx_Rollback_Keeping(db, tx) == tx_Commit(db, tx)
tx_Rollback(db, tx) == db

\* SELECT EXISTS (... tablename = 'knowledge_schema_version'): the first
\* migration creates the table
TableExists(db) == db.schema # {}

\* SELECT COALESCE(MAX(version), 0) FROM knowledge_schema_version
MaxVersion(db) ==
    IF db.versions = {} THEN 0
    ELSE CHOOSE v \in db.versions : \A w \in db.versions : w <= v

\* In SpecMigrate rows holds the database, query the position of every
\* process in Open and runMigrations: [pc, cur (currentVersion), k (the
\* index in the list), tx], result what the Opens returned, the step and
\* the migration at which an Open failed, the versions in the order they
\* were committed, and the version recorded when each Open began.
IdleOpener == [pc |-> "idle", cur |-> 0, k |-> 1, tx |-> NoTx]
NoFailure == [at |-> "none", version |-> 0]

InitMigrate ==
    /\ kind = "pg"
    /\ records = EmptyMap
    /\ deletedRecs = EmptyMap
    /\ isDirty = FALSE
    /\ rows = NoTx
    /\ now = 1
    /\ last = [op |-> "none", id |-> EmptyStr, ok |-> TRUE]
    /\ query = [p \in Openers |-> IdleOpener]
    /\ result = [ret |-> [p \in Openers |-> "none"], log |-> <<>>,
                 start |-> [p \in Openers |-> 0],
                 failed |-> [p \in Openers |-> NoFailure]]

\* Open returns an error to p: the connections are closed
OpenFails(p) ==
    /\ query' = [query EXCEPT ![p] = IdleOpener]
    /\ result' = [result EXCEPT
                    !.ret[p] = "err",
                    !.failed[p] =
                       [at |-> query[p].pc,
                        version |-> IF query[p].pc \in {"exec", "insert",
                                                        "commit"}
                                    THEN migrations[query[p].k].Version
                                    ELSE 0]]

\* Open: both connections are opened and pinged
MigOpen ==
    /\ \E p \in Openers, ok \in BOOLEAN :
         /\ query[p].pc = "idle"
         /\ IF ok
            THEN /\ query' = [query EXCEPT ![p].pc = "exists"]
                 /\ result' = [result EXCEPT !.ret[p] = "none",
                                             !.failed[p] = NoFailure,
                                             !.start[p] = MaxVersion(rows)]
            ELSE /\ OpenFails(p)
    /\ UNCHANGED <<kind, records, deletedRecs, isDirty, rows, now, last>>

\* runMigrations: does the schema version table exist
MigQueryExists ==
    /\ \E p \in Openers, ok \in BOOLEAN :
         /\ query[p].pc = "exists"
         /\ IF ~ok THEN OpenFails(p)
            ELSE /\ query' = [query EXCEPT
                                ![p].pc = IF TableExists(rows) THEN "version"
                                          ELSE "loop",
                                ![p].cur = 0, ![p].k = 1]
                 /\ UNCHANGED result
    /\ UNCHANGED <<kind, records, deletedRecs, isDirty, rows, now, last>>

\* runMigrations: the current version
MigQueryVersion ==
    /\ \E p \in Openers, ok \in BOOLEAN :
         /\ query[p].pc = "version"
         /\ IF ~ok THEN OpenFails(p)
            ELSE /\ query' = [query EXCEPT ![p].pc = "loop",
                                           ![p].cur = MaxVersion(rows)]
                 /\ UNCHANGED result
    /\ UNCHANGED <<kind, records, deletedRecs, isDirty, rows, now, last>>

\* the head of the loop: past the end Open returns nil; a migration that
\* is not pending is skipped; db.Begin for one that is
MigLoop ==
    /\ \E p \in Openers, ok \in BOOLEAN :
         /\ query[p].pc = "loop"
         /\ IF query[p].k > Len(migrations)
            THEN /\ ok
                 /\ query' = [query EXCEPT ![p] = IdleOpener]
                 /\ result' = [result EXCEPT !.ret[p] = "ok"]
            ELSE IF ~Pending(migrations[query[p].k], query[p].cur)
            THEN /\ ok
                 /\ query' = [query EXCEPT ![p].k = @ + 1]
                 /\ UNCHANGED result
            ELSE IF ok
            THEN /\ query' = [query EXCEPT ![p].pc = "exec", ![p].tx = NoTx]
                 /\ UNCHANGED result
            ELSE OpenFails(p)
    /\ UNCHANGED <<kind, records, deletedRecs, isDirty, rows, now, last>>

\* tx.Exec(migration.SQL), and tx.Rollback when it fails
MigExec ==
    /\ \E p \in Openers, ok \in BOOLEAN :
         /\ query[p].pc = "exec"
         /\ IF ok
            THEN /\ query' = [query EXCEPT
                                ![p].pc = "insert",
                                ![p].tx = tx_Exec(@, migrations[query[p].k])]
                 /\ UNCHANGED <<rows, result>>
            ELSE /\ rows' = tx_Rollback(rows, query[p].tx)
                 /\ OpenFails(p)
    /\ UNCHANGED <<kind, records, deletedRecs, isDirty, now, last>>

\* the INSERT of the version row, and tx.Rollback when it fails; version
\* is the primary key of the table, so a row that is there already makes
\* it fail
MigInsert ==
    /\ \E p \in Openers, ok \in BOOLEAN :
         /\ query[p].pc = "insert"
         /\ IF ok /\ migrations[query[p].k].Version \notin rows.versions
            THEN /\ query' = [query EXCEPT
                                ![p].pc = "commit",
                                ![p].tx = tx_Insert(@, migrations[query[p].k])]
                 /\ UNCHANGED <<rows, result>>
            ELSE /\ rows' = tx_Rollback(rows, query[p].tx)
                 /\ OpenFails(p)
    /\ UNCHANGED <<kind, records, deletedRecs, isDirty, now, last>>

\* tx.Commit; it fails when another transaction has committed the same
\* version row in the meantime
MigCommit ==
    /\ \E p \in Openers, ok \in BOOLEAN :
         /\ query[p].pc = "commit"
         /\ IF ok /\ query[p].tx.versions \cap rows.versions = {}
            THEN /\ rows' = tx_Commit(rows, query[p].tx)
                 /\ query' = [query EXCEPT ![p].pc = "loop", ![p].k = @ + 1,
                                           ![p].tx = NoTx]
                 /\ result' = [result EXCEPT
                                 !.log = Append(@, migrations[query[p].k].Version)]
            ELSE /\ rows' = tx_Rollback(rows, query[p].tx)
                 /\ OpenFails(p)
    /\ UNCHANGED <<kind, records, deletedRecs, isDirty, now, last>>

NextMigrate ==
    \/ MigOpen
    \/ MigQueryExists
    \/ MigQueryVersion
    \/ MigLoop
    \/ MigExec
    \/ MigInsert
    \/ MigCommit

SpecMigrate == InitMigrate /\ [][NextMigrate]_vars

(* ------------------------ claims: migrations --------------------------- *)
\* C31: a migration and the insertion of its version row are committed
\* together or not at all: when a step of a migration fails, Open returns
\* an error, the database is as it was before the migration began, and the
\* schema-version table records exactly the migrations whose changes are
\* committed
C31_MigrationIsAtomic ==
    [][/\ rows'.schema = rows'.versions
       /\ \A p \in Openers :
             (result'.ret[p] = "err" /\ query[p].pc # "idle")
             => rows' = rows]_vars
\* the commit of the second migration has failed for an Open that had
\* applied the first one
C31_Witness ==
    /\ rows = [schema |-> {1}, versions |-> {1}]
    /\ \E p \in Openers :
          /\ result.ret[p] = "err"
          /\ result.start[p] = 0
          /\ result.failed[p] = [at |-> "commit", version |-> 2]
          /\ \A q \in Openers \ {p} : result.ret[q] = "none"

\* C32: migrations are idempotent across Opens: an Open on a database
\* whose schema-version table records version v applies no migration with
\* Version <= v, no version row is inserted twice, and the migrations are
\* committed in ascending order of their versions
C32_MigrationsApplyOnce ==
    /\ \A i \in 1..Len(result.log), j \in 1..Len(result.log) :
          i < j => result.log[i] < result.log[j]
    /\ \A p \in Openers :
          query[p].pc \in {"exec", "insert", "commit"}
          => migrations[query[p].k].Version > result.start[p]
\* an Open on a database that had the first migration has skipped it,
\* applied the second and returned nil
C32_Witness ==
    /\ result.log = <<1, 2>>
    /\ \E p \in Openers : result.ret[p] = "ok" /\ result.start[p] = 1

(* ------------- two accounts on one database (SpecAccounts) ------------- *)
\* the accounts of the stores opened on the database
Tenants == {1, 2}

\* the rows of knowledge_entry that belong to an account
OwnRows(tbl, acct) == [k \in {x \in DOMAIN tbl : x[1] = acct} |-> tbl[k]]

\* the records the accounts store, the same for both
TenantEntries == {Entry(ID_A, Content1, 1, 1), RecordB}

\* In SpecAccounts rows holds knowledge_entry, query the call of an account,
\* result whether it returned an error, and whether it returns one when the
\* table holds the rows of that account only.
NoTenantCall == [op |-> "none", acct |-> 0, id |-> EmptyStr]
NoTenantResult == [done |-> FALSE, err |-> FALSE, alone |-> FALSE]

InitAccounts ==
    /\ kind = "pg"
    /\ records = EmptyMap
    /\ deletedRecs = EmptyMap
    /\ isDirty = FALSE
    /\ rows = EmptyMap
    /\ now = 1
    /\ last = [op |-> "none", id |-> EmptyStr, ok |-> TRUE]
    /\ query = NoTenantCall
    /\ result = NoTenantResult

TenantAddRecord ==
    /\ \E acct \in Tenants, record \in TenantEntries, dbErr \in BOOLEAN :
         LET res == PgStore_AddRecord(rows, acct, record, now, dbErr)
             alone == PgStore_AddRecord(OwnRows(rows, acct), acct, record,
                                        now, dbErr)
         IN /\ rows' = res.tbl
            /\ query' = [op |-> "AddRecord", acct |-> acct, id |-> record.ID]
            /\ result' = [done |-> TRUE, err |-> res.err, alone |-> alone.err]
    /\ UNCHANGED <<kind, records, deletedRecs, isDirty, now, last>>

TenantDeleteRecord ==
    /\ \E acct \in Tenants, record \in TenantEntries, dbErr \in BOOLEAN :
         LET res == PgStore_DeleteRecord(rows, acct, record.ID, now, dbErr)
             alone == PgStore_DeleteRecord(OwnRows(rows, acct), acct,
                                           record.ID, now, dbErr)
         IN /\ rows' = res.tbl
            /\ query' = [op |-> "DeleteRecord", acct |-> acct,
                         id |-> record.ID]
            /\ result' = [done |-> TRUE, err |-> res.err, alone |-> alone.err]
    /\ UNCHANGED <<kind, records, deletedRecs, isDirty, now, last>>

TenantPurgeRecord ==
    /\ \E acct \in Tenants, record \in TenantEntries, dbErr \in BOOLEAN :
         LET res == PgStore_PurgeRecord(rows, acct, record.ID, dbErr)
             alone == PgStore_PurgeRecord(OwnRows(rows, acct), acct,
                                          record.ID, dbErr)
         IN /\ rows' = res.tbl
            /\ query' = [op |-> "PurgeRecord", acct |-> acct,
                         id |-> record.ID]
            /\ result' = [done |-> TRUE, err |-> res.err, alone |-> alone.err]
    /\ UNCHANGED <<kind, records, deletedRecs, isDirty, now, last>>

TenantGetRecord ==
    /\ \E acct \in Tenants, record \in TenantEntries, dbErr \in BOOLEAN :
         LET res == PgStore_GetRecord(rows, acct, record.ID, dbErr)
             alone == PgStore_GetRecord(OwnRows(rows, acct), acct, record.ID,
                                        dbErr)
         IN /\ query' = [op |-> "GetRecord", acct |-> acct, id |-> record.ID]
            /\ result' = [done |-> TRUE, err |-> res.err, alone |-> alone.err]
    /\ UNCHANGED <<kind, records, deletedRecs, isDirty, rows, now, last>>

NextAccounts ==
    \/ TenantAddRecord
    \/ TenantDeleteRecord
    \/ TenantPurgeRecord
    \/ TenantGetRecord

SpecAccounts == InitAccounts /\ [][NextAccounts]_vars

(* ------------------------- claims: accounts ----------------------------- *)
\* C33 as stated: record IDs are unique per account, not globally: whether
\* an operation of one account succeeds does not depend on the records of
\* another account, and two accounts can each store a record with the same
\* ID
C33_AccountsAreIsolated ==
    result.done => result.err = result.alone

====
